---------------------------- MODULE Spec2Model ----------------------------
(***************************************************************************)
(* A model of the lexical scanners of snowflake_linter and of the rules    *)
(* built on them.  SQL text is a sequence of one-character strings; every  *)
(* regular expression of the source is an operator that computes what      *)
(* Python's re module computes for it (leftmost match, greedy or lazy      *)
(* quantifiers, backtracking, non-overlapping finditer/sub).               *)
(*                                                                         *)
(* The state is one call: the text handed to an operation (sql), an        *)
(* integer argument (pos), the operation that ran (op), its result (out)   *)
(* and the result of the operation before it (prev).  gen records the      *)
(* pieces an input text was assembled from.                                *)
(***************************************************************************)
EXTENDS Integers, Sequences, FiniteSets, TLC

VARIABLES sql, gen, pos, op, out, prev

vars == <<sql, gen, pos, op, out, prev>>

NoValue == <<>>

(***************************************************************************)
(* Characters and character classes of Python's re (ASCII text).           *)
(***************************************************************************)
LowerCase == <<"a","b","c","d","e","f","g","h","i","j","k","l","m",
               "n","o","p","q","r","s","t","u","v","w","x","y","z">>

UpperCase == <<"A","B","C","D","E","F","G","H","I","J","K","L","M",
               "N","O","P","Q","R","S","T","U","V","W","X","Y","Z">>

Range(f) == {f[i] : i \in DOMAIN f}

Digits == {"0","1","2","3","4","5","6","7","8","9"}

\* \w
WordChars == Range(LowerCase) \cup Range(UpperCase) \cup Digits \cup {"_"}

\* \s
SpaceChars == {" ", "\t", "\n", "\r"}

IsWord(c) == c \in WordChars

IsSpace(c) == c \in SpaceChars

IsDigit(c) == c \in Digits

\* [\w.]
WordOrDotChars == WordChars \cup {"."}

IsWordOrDot(c) == c \in WordOrDotChars

\* str.upper() on one character
ToUpper(c) ==
    IF c \in Range(LowerCase)
    THEN UpperCase[CHOOSE i \in DOMAIN LowerCase : LowerCase[i] = c]
    ELSE c

\* str.upper()
Upper(s) == [i \in 1..Len(s) |-> ToUpper(s[i])]

\* s[i:] starts with the literal lit (i is 1-based)
StartsAt(s, i, lit) ==
    /\ i >= 1
    /\ i + Len(lit) - 1 <= Len(s)
    /\ \A k \in 1..Len(lit) : s[i + k - 1] = lit[k]

\* the same with re.IGNORECASE
StartsAtI(s, i, lit) ==
    /\ i >= 1
    /\ i + Len(lit) - 1 <= Len(s)
    /\ \A k \in 1..Len(lit) : ToUpper(s[i + k - 1]) = ToUpper(lit[k])

\* \b between s[i-1] and s[i] (i in 1..Len(s)+1)
WordBoundary(s, i) ==
    LET isW(k) == k >= 1 /\ k <= Len(s) /\ IsWord(s[k])
    IN  isW(i - 1) # isW(i)

\* the end of the maximal run of characters of the class that starts at i:
\* the first index >= i whose character is outside it, Len(s)+1 when there
\* is none
RunEnd(s, i, class) ==
    CHOOSE j \in i..(Len(s) + 1) :
        /\ \A k \in i..(j - 1) : s[k] \in class
        /\ (j = Len(s) + 1 \/ s[j] \notin class)

\* the index of the first "\n" at or after i, Len(s)+1 when there is none
LineEnd(s, i) ==
    CHOOSE j \in i..(Len(s) + 1) :
        /\ \A k \in i..(j - 1) : s[k] # "\n"
        /\ (j = Len(s) + 1 \/ s[j] = "\n")

\* s[i:j] of Python for 1-based i, exclusive 1-based j
Slice(s, i, j) == IF j <= i THEN <<>> ELSE SubSeq(s, i, j - 1)

\* the least member of a non-empty set of indexes
Min(S) == CHOOSE j \in S : \A k \in S : j <= k

\* str.split('\n')
RECURSIVE SplitLines(_)
SplitLines(s) ==
    LET e == LineEnd(s, 1)
    IN  IF e > Len(s) THEN <<s>>
        ELSE <<Slice(s, 1, e)>> \o SplitLines(Slice(s, e + 1, Len(s) + 1))

CountNewlines(s) == Cardinality({i \in 1..Len(s) : s[i] = "\n"})

\* concatenation of a sequence of texts
RECURSIVE Concat(_)
Concat(parts) ==
    IF parts = <<>> THEN <<>> ELSE Head(parts) \o Concat(Tail(parts))

\* str.join: the parts with sep between them
RECURSIVE JoinWith(_, _)
JoinWith(parts, sep) ==
    IF Len(parts) = 0 THEN <<>>
    ELSE IF Len(parts) = 1 THEN parts[1]
    ELSE parts[1] \o sep \o JoinWith(Tail(parts), sep)

\* every text over an alphabet of at most n characters
RECURSIVE TextsUpTo(_, _)
TextsUpTo(alphabet, n) ==
    IF n = 0 THEN {<<>>}
    ELSE LET shorter == TextsUpTo(alphabet, n - 1)
         IN  shorter \cup {Append(t, c) : t \in shorter, c \in alphabet}

(***************************************************************************)
(* The keywords the scanners look for, as texts.                           *)
(***************************************************************************)
Word ==
    "SELECT" :> <<"S", "E", "L", "E", "C", "T">>
    @@ "DISTINCT" :> <<"D", "I", "S", "T", "I", "N", "C", "T">>
    @@ "AS" :> <<"A", "S">>
    @@ "FROM" :> <<"F", "R", "O", "M">>
    @@ "WHERE" :> <<"W", "H", "E", "R", "E">>
    @@ "GROUP" :> <<"G", "R", "O", "U", "P">>
    @@ "ORDER" :> <<"O", "R", "D", "E", "R">>
    @@ "BY" :> <<"B", "Y">>
    @@ "LIMIT" :> <<"L", "I", "M", "I", "T">>
    @@ "HAVING" :> <<"H", "A", "V", "I", "N", "G">>
    @@ "JOIN" :> <<"J", "O", "I", "N">>
    @@ "LEFT" :> <<"L", "E", "F", "T">>
    @@ "RIGHT" :> <<"R", "I", "G", "H", "T">>
    @@ "INNER" :> <<"I", "N", "N", "E", "R">>
    @@ "OUTER" :> <<"O", "U", "T", "E", "R">>
    @@ "ON" :> <<"O", "N">>
    @@ "OVER" :> <<"O", "V", "E", "R">>
    @@ "COUNT" :> <<"C", "O", "U", "N", "T">>
    @@ "SUM" :> <<"S", "U", "M">>
    @@ "AVG" :> <<"A", "V", "G">>
    @@ "MAX" :> <<"M", "A", "X">>
    @@ "MIN" :> <<"M", "I", "N">>
    @@ "CAST" :> <<"C", "A", "S", "T">>
    @@ "CASE" :> <<"C", "A", "S", "E">>
    @@ "WHEN" :> <<"W", "H", "E", "N">>
    @@ "THEN" :> <<"T", "H", "E", "N">>
    @@ "ELSE" :> <<"E", "L", "S", "E">>
    @@ "END" :> <<"E", "N", "D">>
    @@ "NULL" :> <<"N", "U", "L", "L">>
    @@ "TRUE" :> <<"T", "R", "U", "E">>
    @@ "FALSE" :> <<"F", "A", "L", "S", "E">>

(***************************************************************************)
(* utils/sql_utils.py: normalize_sql                                       *)
(***************************************************************************)
\* one line without its line comment: r'--.*?$' matches from the first "--"
\* of a line up to the end of that line ('.' matches no newline, '$' under
\* re.MULTILINE matches before one)
CutLineComment(line) ==
    LET starts == {j \in 1..Len(line) : StartsAt(line, j, <<"-", "-">>)}
    IN  IF starts = {} THEN line ELSE Slice(line, 1, Min(starts))

\* re.sub(r'--.*?$', '', sql, flags=re.MULTILINE): every line loses its
\* line comment and the newlines stay
StripLineComments(s) ==
    LET lines == SplitLines(s)
    IN  JoinWith([n \in DOMAIN lines |-> CutLineComment(lines[n])], <<"\n">>)

\* the start of the first "*/" at or after i, 0 when there is none
BlockCommentClose(s, i) ==
    LET closers == {j \in i..Len(s) : StartsAt(s, j, <<"*", "/">>)}
    IN  IF closers = {} THEN 0 ELSE Min(closers)

\* re.sub(r'/\*.*?\*/', '', sql, flags=re.DOTALL): the leftmost "/*" that
\* has a "*/" starting after it is removed through the first such "*/",
\* newlines included, and the scan goes on behind it
RECURSIVE StripBlockComments(_)
StripBlockComments(s) ==
    LET opens == {j \in 1..Len(s) :
                    /\ StartsAt(s, j, <<"/", "*">>)
                    /\ BlockCommentClose(s, j + 2) # 0}
        first == Min(opens)
        after == BlockCommentClose(s, first + 2) + 2
    IN  IF opens = {} THEN s
        ELSE Slice(s, 1, first)
             \o StripBlockComments(Slice(s, after, Len(s) + 1))

normalize_sql(s) == StripBlockComments(StripLineComments(s))

(***************************************************************************)
(* Inputs of the normalizer: every text over the characters that make up   *)
(* comment markers, a newline and a letter.                                *)
(***************************************************************************)
MaxNormLen == 6

NormAlphabet == {"-", "/", "*", "\n", "a"}

NormInputs == TextsUpTo(NormAlphabet, MaxNormLen)

InitNormalize ==
    /\ sql \in NormInputs
    /\ gen = NoValue
    /\ pos = 0
    /\ op = "none"
    /\ out = NoValue
    /\ prev = NoValue

\* a caller normalizes the text (every rule's check starts this way)
NormalizeSql ==
    /\ op = "none"
    /\ op' = "normalize_sql"
    /\ out' = normalize_sql(sql)
    /\ prev' = NoValue
    /\ UNCHANGED <<sql, gen, pos>>

\* normalize_sql applied to its own result
NormalizeAgain ==
    /\ op = "normalize_sql"
    /\ op' = "normalize_sql_twice"
    /\ prev' = out
    /\ out' = normalize_sql(out)
    /\ UNCHANGED <<sql, gen, pos>>

NextNormalize == NormalizeSql \/ NormalizeAgain

SpecNormalize == InitNormalize /\ [][NextNormalize]_vars

\* C3: normalize_sql is idempotent: normalizing a normalized text changes
\* nothing.
C3_Idempotent == op = "normalize_sql_twice" => out = prev

\* C4: normalize_sql keeps the number of newline characters of its input.
C4_NewlinesPreserved ==
    op = "normalize_sql" => CountNewlines(out) = CountNewlines(sql)

(***************************************************************************)
(* rules/rule_unqualified_columns.py                                       *)
(***************************************************************************)
NoMatch == [ok |-> FALSE]

\* one match of r'FROM\s+[\w.]+\s+(?:AS\s+)?(\w+)' (IGNORECASE) that starts at
\* i.  Every quantifier is followed by a character outside its class, so each
\* run is maximal.  The optional AS group is tried first; when the alias
\* cannot follow it the group is given up and (\w+) takes the word at d,
\* which then is the word that starts with AS.
AliasMatchAt(s, i) ==
    IF ~StartsAtI(s, i, Word["FROM"]) THEN NoMatch
    ELSE LET a == i + Len(Word["FROM"])
             b == RunEnd(s, a, SpaceChars)
             c == RunEnd(s, b, WordOrDotChars)
             d == RunEnd(s, c, SpaceChars)
             e == d + Len(Word["AS"])
             f == RunEnd(s, e, SpaceChars)
             g == RunEnd(s, f, WordChars)
             h == RunEnd(s, d, WordChars)
         IN  IF b = a \/ c = b \/ d = c THEN NoMatch
             ELSE IF StartsAtI(s, d, Word["AS"]) /\ f > e /\ g > f
                  THEN [ok |-> TRUE, alias |-> Slice(s, f, g), end |-> g]
                  ELSE IF h > d
                       THEN [ok |-> TRUE, alias |-> Slice(s, d, h), end |-> h]
                       ELSE NoMatch

\* re.finditer over the whole text from i on: the captured group of every
\* match, left to right, the search resuming where the last match ended
RECURSIVE AliasCandidates(_, _)
AliasCandidates(s, i) ==
    LET starts == {j \in i..Len(s) : AliasMatchAt(s, j).ok}
        m == AliasMatchAt(s, Min(starts))
    IN  IF starts = {} THEN <<>>
        ELSE <<m.alias>> \o AliasCandidates(s, m.end)

AliasDenylist ==
    {Word["WHERE"], Word["JOIN"], Word["LEFT"], Word["RIGHT"], Word["INNER"], Word["OUTER"], Word["ON"], Word["GROUP"],
     Word["ORDER"], Word["LIMIT"]}

extract_table_aliases(s) ==
    {a \in Range(AliasCandidates(s, 1)) : Upper(a) \notin AliasDenylist}

\* re.search(r'\bKW\b', line, re.IGNORECASE)
HasKeyword(line, kw) ==
    \E i \in 1..Len(line) :
        /\ WordBoundary(line, i)
        /\ StartsAtI(line, i, kw)
        /\ WordBoundary(line, i + Len(kw))

\* re.search(r'\bW1\s+W2\b', line, re.IGNORECASE)
HasPhrase(line, w1, w2) ==
    \E i \in 1..Len(line) :
        /\ WordBoundary(line, i)
        /\ StartsAtI(line, i, w1)
        /\ LET a == i + Len(w1)
               b == RunEnd(line, a, SpaceChars)
           IN  /\ b > a
               /\ StartsAtI(line, b, w2)
               /\ WordBoundary(line, b + Len(w2))

\* r'\b(FROM|WHERE|GROUP\s+BY|ORDER\s+BY|LIMIT|HAVING)\b'
HasClauseKeyword(line) ==
    \/ \E kw \in {Word["FROM"], Word["WHERE"], Word["LIMIT"], Word["HAVING"]} : HasKeyword(line, kw)
    \/ HasPhrase(line, Word["GROUP"], Word["BY"])
    \/ HasPhrase(line, Word["ORDER"], Word["BY"])

\* ([\w.]+)(?:\s|,|$|\)) with the token starting at t: the maximal run of
\* word characters and dots, followed by the end of the line or by one
\* delimiter, which the match consumes
ColumnTokenAt(line, t) ==
    IF t > Len(line) THEN NoMatch
    ELSE LET e == RunEnd(line, t, WordOrDotChars)
         IN  IF e = t THEN NoMatch
             ELSE IF e > Len(line)
                  THEN [ok |-> TRUE, col |-> Slice(line, t, e), end |-> e]
                  ELSE IF IsSpace(line[e]) \/ line[e] \in {",", ")"}
                       THEN [ok |-> TRUE, col |-> Slice(line, t, e),
                             end |-> e + 1]
                       ELSE NoMatch

\* one match of r'(?:^|[,\s(])([\w.]+)(?:\s|,|$|\))' that starts at i: '^'
\* is tried first and matches only at the start of the line, then one
\* leading delimiter
ColumnMatchAt(line, i) ==
    IF i = 1 /\ ColumnTokenAt(line, 1).ok THEN ColumnTokenAt(line, 1)
    ELSE IF IsSpace(line[i]) \/ line[i] \in {",", "("}
         THEN ColumnTokenAt(line, i + 1)
         ELSE NoMatch

\* re.finditer(col_pattern, line) from i on: group 1 of every match
RECURSIVE ColumnTokens(_, _)
ColumnTokens(line, i) ==
    LET starts == {j \in i..Len(line) : ColumnMatchAt(line, j).ok}
        m == ColumnMatchAt(line, Min(starts))
    IN  IF starts = {} THEN <<>>
        ELSE <<m.col>> \o ColumnTokens(line, m.end)

\* col_ref and not re.match(r'^\d+$', col_ref)
\*         and col_ref.upper() not in ('SELECT', 'DISTINCT', 'AS')
KeepColumn(col) ==
    /\ col # <<>>
    /\ \E k \in 1..Len(col) : ~IsDigit(col[k])
    /\ Upper(col) \notin {Word["SELECT"], Word["DISTINCT"], Word["AS"]}

\* the loop over the lines, line n onwards, entered with in_select
RECURSIVE SelectColumnsFrom(_, _, _)
SelectColumnsFrom(lines, n, in_select) ==
    IF n > Len(lines) THEN <<>>
    ELSE LET line == lines[n]
             started == in_select \/ HasKeyword(line, Word["SELECT"])
             active == started /\ ~HasClauseKeyword(line)
             toks == SelectSeq(ColumnTokens(line, 1), KeepColumn)
             here == IF active
                     THEN [k \in 1..Len(toks) |-> <<n, toks[k]>>]
                     ELSE <<>>
         IN  here \o SelectColumnsFrom(lines, n + 1, active)

extract_select_columns(s) == SelectColumnsFrom(SplitLines(s), 1, FALSE)

FunctionPrefixes ==
    {Word["COUNT"], Word["SUM"], Word["AVG"], Word["MAX"], Word["MIN"], Word["DISTINCT"], Word["CAST"], Word["CASE"], Word["WHEN"],
     Word["THEN"], Word["ELSE"], Word["END"]}

is_unqualified(column) ==
    IF \E p \in FunctionPrefixes :
           StartsAtI(column, 1, p) /\ WordBoundary(column, Len(p) + 1)
    THEN FALSE
    ELSE IF column \in {<<"*">>, Word["NULL"], Word["TRUE"], Word["FALSE"]} THEN FALSE
    ELSE IF \E k \in 1..Len(column) : column[k] = "." THEN FALSE
    ELSE TRUE

\* a violation as the rules build it: a LintResult object or a dict
Violation(kind, rule, severity, line, message) ==
    [kind |-> kind, rule |-> rule, severity |-> severity, line |-> line,
     message |-> message]

UnqualifiedViolation(line) ==
    Violation("LintResult", "UNQUALIFIED_COLUMNS", "WARNING", line,
              "Column appears unqualified. Use table alias.")

\* the loop of check over columns[k..], seen being the keys already reported
RECURSIVE ReportUnqualified(_, _, _)
ReportUnqualified(columns, k, seen) ==
    IF k > Len(columns) THEN <<>>
    ELSE IF is_unqualified(columns[k][2]) /\ columns[k] \notin seen
         THEN <<UnqualifiedViolation(columns[k][1])>>
              \o ReportUnqualified(columns, k + 1, seen \cup {columns[k]})
         ELSE ReportUnqualified(columns, k + 1, seen)

\* check without the guard `if not aliases: return violations`
RuleUnqualifiedColumns_check_NoAliasGuard(s) ==
    ReportUnqualified(extract_select_columns(normalize_sql(s)), 1, {})

RuleUnqualifiedColumns_check(s) ==
    LET normalized_sql == normalize_sql(s)
        aliases == extract_table_aliases(normalized_sql)
    IN  IF aliases = {} THEN <<>>
        ELSE ReportUnqualified(extract_select_columns(normalized_sql), 1, {})

(***************************************************************************)
(* Inputs of the unqualified-columns rule: a statement                     *)
(*   SELECT <cols> FROM <first table> <rest>                               *)
(* assembled from the pieces gen records, or the FROM clause alone when    *)
(* gen.cols is empty.                                                      *)
(***************************************************************************)
MaxCols == 2

UnqTexts ==
    "Amount" :> <<"a", "m", "o", "u", "n", "t">>
    @@ "Total" :> <<"t", "o", "t", "a", "l">>
    @@ "OTotal" :> <<"o", ".", "t", "o", "t", "a", "l">>
    @@ "Orders" :> <<"o", "r", "d", "e", "r", "s">>
    @@ "OrdersO" :> <<"o", "r", "d", "e", "r", "s", " ", "o">>
    @@ "OrdersAsO" :> <<"o", "r", "d", "e", "r", "s", " ", "A", "S", " ",
           "o">>
    @@ "CommaCustomersC" :> <<",", " ", "c", "u", "s", "t", "o", "m", "e",
           "r", "s", " ", "c">>
    @@ "JoinCustomersC" :> <<" ", "J", "O", "I", "N", " ", "c", "u", "s",
           "t", "o", "m", "e", "r", "s", " ", "c", " ", "O", "N", " ", "x">>
    @@ "WhereX" :> <<"\n", "W", "H", "E", "R", "E", " ", "x">>
    @@ "O" :> <<"o">>
    @@ "C" :> <<"c">>

ColumnChoices == {UnqTexts["Amount"], UnqTexts["Total"], UnqTexts["OTotal"]}

ColumnLists == UNION {[1..n -> ColumnChoices] : n \in 0..MaxCols}

UnqGens ==
    [selSep : {<<" ">>, <<"\n">>},
     cols : ColumnLists,
     colSep : {<<",", " ">>, <<",">>, <<",", "\n">>},
     fromSep : {<<" ">>, <<"\n">>},
     first : {UnqTexts["Orders"], UnqTexts["OrdersO"], UnqTexts["OrdersAsO"]},
     rest : {<<>>, UnqTexts["CommaCustomersC"], UnqTexts["JoinCustomersC"], UnqTexts["WhereX"]}]

FromClause(g) == Word["FROM"] \o <<" ">> \o g.first \o g.rest

UnqText(g) ==
    IF Len(g.cols) = 0 THEN FromClause(g)
    ELSE Word["SELECT"] \o g.selSep \o JoinWith(g.cols, g.colSep) \o g.fromSep
         \o FromClause(g)

InitUnqualified ==
    /\ gen \in UnqGens
    /\ sql = UnqText(gen)
    /\ pos = 0
    /\ op = "none"
    /\ out = NoValue
    /\ prev = NoValue

ExtractTableAliases ==
    /\ op = "none"
    /\ op' = "extract_table_aliases"
    /\ out' = extract_table_aliases(sql)
    /\ UNCHANGED <<sql, gen, pos, prev>>

ExtractSelectColumns ==
    /\ op = "none"
    /\ op' = "extract_select_columns"
    /\ out' = extract_select_columns(sql)
    /\ UNCHANGED <<sql, gen, pos, prev>>

CheckUnqualifiedColumns ==
    /\ op = "none"
    /\ op' = "RuleUnqualifiedColumns.check"
    /\ out' = RuleUnqualifiedColumns_check(sql)
    /\ UNCHANGED <<sql, gen, pos, prev>>

NextUnqualified ==
    ExtractTableAliases \/ ExtractSelectColumns \/ CheckUnqualifiedColumns

SpecUnqualified == InitUnqualified /\ [][NextUnqualified]_vars

\* what the pieces of a generated statement say about it
HasDot(col) == \E k \in 1..Len(col) : col[k] = "."

NewlinesIn(t) == CountNewlines(t)

\* the line of the k-th projection column
ColumnLine(g, k) == 1 + NewlinesIn(g.selSep) + (k - 1) * NewlinesIn(g.colSep)

\* the aliases the FROM clause of the statement declares
DeclaredAliases(g) ==
    (IF g.first \in {UnqTexts["OrdersO"], UnqTexts["OrdersAsO"]} THEN {UnqTexts["O"]} ELSE {})
    \cup (IF g.rest \in {UnqTexts["CommaCustomersC"], UnqTexts["JoinCustomersC"]} THEN {UnqTexts["C"]}
          ELSE {})

\* the distinct unqualified projection columns of line n
UnqualifiedColumnsOn(g, n) ==
    {g.cols[k] : k \in {j \in 1..Len(g.cols) :
                            ColumnLine(g, j) = n /\ ~HasDot(g.cols[j])}}

ViolationsOn(v, n) == {k \in 1..Len(v) : v[k].line = n}

LinesOfText(t) == 1..(CountNewlines(t) + 1)

\* C1: on a statement whose FROM clause declares an alias, check reports
\* exactly one UNQUALIFIED_COLUMNS violation for each distinct unqualified
\* projection column, on that column's line, and none for dotted columns.
C1_OnePerUnqualifiedColumn ==
    (op = "RuleUnqualifiedColumns.check" /\ Len(gen.cols) > 0
        /\ DeclaredAliases(gen) # {})
    => /\ \A k \in 1..Len(out) : out[k].rule = "UNQUALIFIED_COLUMNS"
       /\ \A n \in LinesOfText(sql) :
            Cardinality(ViolationsOn(out, n))
                = Cardinality(UnqualifiedColumnsOn(gen, n))

\* C2: extract_table_aliases returns the alias of every `table [AS] alias`
\* item of the FROM clause, items after a comma and joined tables included,
\* and the empty set when no table has an alias.
C2_EveryDeclaredAlias ==
    op = "extract_table_aliases" => out = DeclaredAliases(gen)

\* C5: a line that holds both SELECT and a clause keyword still belongs to
\* the projection span: its column tokens are extracted.
C5_SelectLineWithClauseKeyword ==
    (op = "extract_select_columns" /\ Len(gen.cols) > 0
        /\ LET line == SplitLines(sql)[1]
           IN  HasKeyword(line, Word["SELECT"]) /\ HasClauseKeyword(line))
    => \E k \in 1..Len(out) : out[k][1] = 1

\* C9: when extract_table_aliases finds no alias in the normalized text,
\* check returns the empty list, whatever the projection holds.
C9_NoAliasNoViolation ==
    (op = "RuleUnqualifiedColumns.check"
        /\ extract_table_aliases(normalize_sql(sql)) = {})
    => out = <<>>

\* C9 happens: a statement without alias whose projection span yields an
\* unqualified column, and check returned nothing
C9_Witness ==
    /\ op = "RuleUnqualifiedColumns.check"
    /\ extract_table_aliases(normalize_sql(sql)) = {}
    /\ \E k \in DOMAIN extract_select_columns(normalize_sql(sql)) :
           is_unqualified(extract_select_columns(normalize_sql(sql))[k][2])
    /\ out = <<>>

(***************************************************************************)
(* rules/rule_window_orderby.py                                            *)
(***************************************************************************)
fn ==
    "ROW_NUMBER" :> <<"R", "O", "W", "_", "N", "U", "M", "B", "E", "R">>
    @@ "RANK" :> <<"R", "A", "N", "K">>
    @@ "DENSE_RANK" :> <<"D", "E", "N", "S", "E", "_", "R", "A", "N", "K">>
    @@ "LAG" :> <<"L", "A", "G">>
    @@ "LEAD" :> <<"L", "E", "A", "D">>
    @@ "NTILE" :> <<"N", "T", "I", "L", "E">>
    @@ "FIRST_VALUE" :> <<"F", "I", "R", "S", "T", "_", "V", "A", "L", "U",
           "E">>
    @@ "LAST_VALUE" :> <<"L", "A", "S", "T", "_", "V", "A", "L", "U", "E">>
    @@ "NTH_VALUE" :> <<"N", "T", "H", "_", "V", "A", "L", "U", "E">>

WINDOW_FUNCTIONS ==
    {fn["ROW_NUMBER"], fn["RANK"], fn["DENSE_RANK"], fn["LAG"], fn["LEAD"], fn["NTILE"],
     fn["FIRST_VALUE"], fn["LAST_VALUE"], fn["NTH_VALUE"]}

None == "None"

\* line[a:b] of Python, a and b counted from 0
PySlice(line, a, b) == IF b <= a THEN <<>> ELSE SubSeq(line, a + 1, b)

\* the while loop of _extract_over_clause from (pos, paren_count) to its end;
\* pos counts from 0 as in the source
RECURSIVE ScanParens(_, _, _)
ScanParens(line, p, paren_count) ==
    IF p < Len(line) /\ paren_count > 0
    THEN ScanParens(line, p + 1,
                    IF line[p + 1] = "(" THEN paren_count + 1
                    ELSE IF line[p + 1] = ")" THEN paren_count - 1
                    ELSE paren_count)
    ELSE [pos |-> p, paren_count |-> paren_count]

\* the loop forgetting that an opening parenthesis nests
RECURSIVE ScanParens_NoNesting(_, _, _)
ScanParens_NoNesting(line, p, paren_count) ==
    IF p < Len(line) /\ paren_count > 0
    THEN ScanParens_NoNesting(line, p + 1,
                    IF line[p + 1] = ")" THEN paren_count - 1
                    ELSE paren_count)
    ELSE [pos |-> p, paren_count |-> paren_count]

\* _extract_over_clause with the loop that does not count nested pairs
extract_over_clause_NoNesting(line, paren_start) ==
    IF paren_start >= Len(line) THEN None
    ELSE LET r == ScanParens_NoNesting(line, paren_start + 1, 1)
         IN  IF r.paren_count = 0
             THEN PySlice(line, paren_start + 1, r.pos - 1)
             ELSE PySlice(line, paren_start + 1, Len(line))

\* RuleWindowOrderBy._extract_over_clause; paren_start counts from 0
extract_over_clause(line, paren_start) ==
    IF paren_start >= Len(line) THEN None
    ELSE LET r == ScanParens(line, paren_start + 1, 1)
         IN  IF r.paren_count = 0
             THEN PySlice(line, paren_start + 1, r.pos - 1)
             ELSE PySlice(line, paren_start + 1, Len(line))

\* the index of the first ")" at or after i, Len(line)+1 when there is none
CloseParenFrom(line, i) ==
    CHOOSE j \in i..(Len(line) + 1) :
        /\ \A k \in i..(j - 1) : line[k] # ")"
        /\ (j = Len(line) + 1 \/ line[j] = ")")

\* one match of r'(\w+)\s*\([^)]*\)\s*OVER\s*\(' (IGNORECASE) that starts at
\* i: the word run from i, the argument list up to the first ")", OVER and
\* the opening parenthesis of the window.  end is match.end(), counted from 0,
\* which is the 1-based index of that parenthesis.
WindowMatchAt(line, i) ==
    LET a == RunEnd(line, i, WordChars)
        b == RunEnd(line, a, SpaceChars)
        c == CloseParenFrom(line, b + 1)
        d == RunEnd(line, c + 1, SpaceChars)
        e == d + Len(Word["OVER"])
        f == RunEnd(line, e, SpaceChars)
    IN  IF a = i \/ b > Len(line) THEN NoMatch
        ELSE IF line[b] # "(" \/ c > Len(line) THEN NoMatch
        ELSE IF ~StartsAtI(line, d, Word["OVER"]) THEN NoMatch
        ELSE IF f > Len(line) THEN NoMatch
        ELSE IF line[f] # "(" THEN NoMatch
        ELSE [ok |-> TRUE, start |-> i, end |-> f]

\* re.search(r'(\w+)\s*\(', text).group(1): the word of the first position
\* from which a word run, spaces and "(" follow; None without one
FirstCallName(text) ==
    LET calls == {i \in 1..Len(text) :
                    LET a == RunEnd(text, i, WordChars)
                        b == RunEnd(text, a, SpaceChars)
                    IN  a > i /\ b <= Len(text) /\ text[b] = "("}
        i0 == CHOOSE i \in calls : \A j \in calls : i <= j
    IN  IF calls = {} THEN None
        ELSE Slice(text, i0, RunEnd(text, i0, WordChars))

\* the matches of one line from i on, as (line_num, func_name, over_clause)
RECURSIVE WindowCallsOfLine(_, _, _)
WindowCallsOfLine(line, line_num, i) ==
    LET starts == {j \in i..Len(line) : WindowMatchAt(line, j).ok}
        m == WindowMatchAt(line, Min(starts))
        func_name == FirstCallName(Slice(line, m.start, m.end + 1))
        over_start == m.end - 1
        over_clause == extract_over_clause(line, over_start)
    IN  IF starts = {} THEN <<>>
        ELSE (IF func_name # None
                 /\ Upper(func_name) \in WINDOW_FUNCTIONS
                 /\ over_clause # None
              THEN <<<<line_num, func_name, over_clause>>>>
              ELSE <<>>)
             \o WindowCallsOfLine(line, line_num, m.end + 1)

RECURSIVE WindowCallsFrom(_, _)
WindowCallsFrom(lines, n) ==
    IF n > Len(lines) THEN <<>>
    ELSE WindowCallsOfLine(lines[n], n, 1) \o WindowCallsFrom(lines, n + 1)

find_window_functions_with_over(s) == WindowCallsFrom(SplitLines(s), 1)

\* RuleWindowOrderBy.has_order_by: re.search(r'\bORDER\s+BY\b', ...)
window_has_order_by(over_clause) == HasPhrase(over_clause, Word["ORDER"], Word["BY"])

WindowViolation(line) ==
    Violation("LintResult", "WINDOW_MISSING_ORDER_BY", "WARNING", line,
              "Window function missing ORDER BY in OVER() clause.")

RuleWindowOrderBy_check(s) ==
    LET window_funcs == find_window_functions_with_over(normalize_sql(s))
        missing == SelectSeq(window_funcs,
                             LAMBDA w : ~window_has_order_by(w[3]))
    IN  [k \in 1..Len(missing) |-> WindowViolation(missing[k][1])]

(***************************************************************************)
(* Inputs of _extract_over_clause: every line over "(", ")" and a letter,  *)
(* and the line of the documented example, with every paren_start from 0   *)
(* to the length of the line.                                              *)
(***************************************************************************)
MaxParenLen == 5

WinTexts ==
    "OverExample" :> <<"O", "V", "E", "R", " ", "(", "P", "A", "R", "T", "I",
           "T", "I", "O", "N", " ", "B", "Y", " ", "a", " ", "O", "R", "D",
           "E", "R", " ", "B", "Y", " ", "(", "b", ")", ")">>
    @@ "SelectSp" :> <<"S", "E", "L", "E", "C", "T", " ">>
    @@ "CoalesceOpen" :> <<"C", "O", "A", "L", "E", "S", "C", "E", "(">>
    @@ "CoalesceClose" :> <<",", " ", "0", ")">>
    @@ "RankLower" :> <<"r", "a", "n", "k">>
    @@ "Sum" :> <<"S", "U", "M">>
    @@ "ArgA" :> <<"a">>
    @@ "ArgCall" :> <<"f", "(", "a", ")">>
    @@ "OverSpaced" :> <<" ", "O", "V", "E", "R", " ", "(">>
    @@ "OverTight" :> <<"o", "v", "e", "r", "(">>
    @@ "PartitionBy" :> <<"P", "A", "R", "T", "I", "T", "I", "O", "N", " ",
           "B", "Y", " ", "c", "u", "s", "t", "o", "m", "e", "r">>
    @@ "OrderByCustomer" :> <<"O", "R", "D", "E", "R", " ", "B", "Y", " ",
           "c", "u", "s", "t", "o", "m", "e", "r">>
    @@ "PartitionOrderNested" :> <<"P", "A", "R", "T", "I", "T", "I", "O",
           "N", " ", "B", "Y", " ", "a", " ", "O", "R", "D", "E", "R", " ",
           "B", "Y", " ", "(", "b", ")">>
    @@ "AsRnFromT" :> <<" ", "A", "S", " ", "r", "n", " ", "F", "R", "O",
           "M", " ", "t">>
    @@ "SecondNoOrder" :> <<",", " ", "R", "A", "N", "K", "(", ")", " ", "O",
           "V", "E", "R", " ", "(", "P", "A", "R", "T", "I", "T", "I", "O",
           "N", " ", "B", "Y", " ", "y", ")">>
    @@ "SecondOrder" :> <<",", " ", "R", "A", "N", "K", "(", ")", " ", "O",
           "V", "E", "R", " ", "(", "O", "R", "D", "E", "R", " ", "B", "Y",
           " ", "y", ")">>
    @@ "LineComment" :> <<"-", "-", " ", "c", "\n">>

ParenLines == TextsUpTo({"(", ")", "a"}, MaxParenLen) \cup {WinTexts["OverExample"]}

InitOverClause ==
    /\ sql \in ParenLines
    /\ pos \in 0..Len(sql)
    /\ gen = NoValue
    /\ op = "none"
    /\ out = NoValue
    /\ prev = NoValue

ExtractOverClause ==
    /\ op = "none"
    /\ op' = "_extract_over_clause"
    /\ out' = extract_over_clause(sql, pos)
    /\ UNCHANGED <<sql, gen, pos, prev>>

NextOverClause == ExtractOverClause

SpecOverClause == InitOverClause /\ [][NextOverClause]_vars

\* opening minus closing parentheses among line[i..j] (1-based, inclusive)
Depth(line, i, j) ==
    Cardinality({k \in i..j : line[k] = "("})
        - Cardinality({k \in i..j : line[k] = ")"})

\* the closing parentheses that balance the opening one at 1-based index i
BalancingCloses(line, i) ==
    {j \in (i + 1)..Len(line) : line[j] = ")" /\ Depth(line, i, j) = 0}

\* the parenthesis that matches the one at i: the first that balances it
MatchingClose(line, i) ==
    CHOOSE j \in BalancingCloses(line, i) :
        \A k \in BalancingCloses(line, i) : j <= k

WinGens ==
    [prefix : {<<>>, WinTexts["LineComment"]},
     wrapped : BOOLEAN,
     func : {fn["ROW_NUMBER"], WinTexts["RankLower"], fn["LAG"], WinTexts["Sum"]},
     args : {<<>>, WinTexts["ArgA"], WinTexts["ArgCall"]},
     over : {WinTexts["OverSpaced"], WinTexts["OverTight"]},
     body : {<<>>, WinTexts["PartitionBy"], WinTexts["OrderByCustomer"], WinTexts["PartitionOrderNested"]},
     second : {<<>>, WinTexts["SecondNoOrder"], WinTexts["SecondOrder"]}]

WinText(g) ==
    g.prefix \o WinTexts["SelectSp"]
    \o (IF g.wrapped THEN WinTexts["CoalesceOpen"] ELSE <<>>)
    \o g.func \o <<"(">> \o g.args \o <<")">>
    \o g.over \o g.body \o <<")">>
    \o (IF g.wrapped THEN WinTexts["CoalesceClose"] ELSE <<>>)
    \o g.second \o WinTexts["AsRnFromT"]

InitWindow ==
    /\ gen \in WinGens
    /\ sql = WinText(gen)
    /\ pos = 0
    /\ op = "none"
    /\ out = NoValue
    /\ prev = NoValue

FindWindowFunctionsWithOver ==
    /\ op = "none"
    /\ op' = "find_window_functions_with_over"
    /\ out' = find_window_functions_with_over(sql)
    /\ UNCHANGED <<sql, gen, pos, prev>>

CheckWindowOrderBy ==
    /\ op = "none"
    /\ op' = "RuleWindowOrderBy.check"
    /\ out' = RuleWindowOrderBy_check(sql)
    /\ UNCHANGED <<sql, gen, pos, prev>>

NextWindow == FindWindowFunctionsWithOver \/ CheckWindowOrderBy

SpecWindow == InitWindow /\ [][NextWindow]_vars

\* the window calls of a generated line whose OVER body has no ORDER BY
CallsMissingOrderBy(g) ==
    (IF Upper(g.func) \in WINDOW_FUNCTIONS
        /\ g.body \notin {WinTexts["OrderByCustomer"], WinTexts["PartitionOrderNested"]}
     THEN 1 ELSE 0)
    + (IF g.second = WinTexts["SecondNoOrder"] THEN 1 ELSE 0)

\* C7: check reports exactly one WINDOW_MISSING_ORDER_BY violation, on the
\* call's line, for every call of a listed window function (any letter case,
\* any argument list) followed by OVER (...) without ORDER BY, and nothing
\* for a call whose OVER body holds ORDER BY.
C7_OnePerCallMissingOrderBy ==
    op = "RuleWindowOrderBy.check"
    => /\ Len(out) = CallsMissingOrderBy(gen)
       /\ \A k \in 1..Len(out) :
            /\ out[k].rule = "WINDOW_MISSING_ORDER_BY"
            /\ out[k].line = 1 + CountNewlines(gen.prefix)

(***************************************************************************)
(* rules/rule_select_star.py                                               *)
(***************************************************************************)
\* a match of r'\bselect\s+\*' (IGNORECASE) starts at i
SelectStarAt(line, i) ==
    /\ WordBoundary(line, i)
    /\ StartsAtI(line, i, Word["SELECT"])
    /\ LET a == i + Len(Word["SELECT"])
           b == RunEnd(line, a, SpaceChars)
       IN  b > a /\ b <= Len(line) /\ line[b] = "*"

SelectStarViolation(line) ==
    Violation("LintResult", "SELECT_STAR", "WARNING", line,
              "Avoid SELECT *. Explicitly list columns.")

\* the matches of line n, none overlapping another: one violation each
SelectStarOfLine(line, n) ==
    LET starts == {i \in 1..Len(line) : SelectStarAt(line, i)}
    IN  [k \in 1..Cardinality(starts) |-> SelectStarViolation(n)]

RECURSIVE SelectStarFrom(_, _)
SelectStarFrom(lines, n) ==
    IF n > Len(lines) THEN <<>>
    ELSE SelectStarOfLine(lines[n], n) \o SelectStarFrom(lines, n + 1)

\* RuleSelectStar.check: the raw text, not normalized
RuleSelectStar_check(s) == SelectStarFrom(SplitLines(s), 1)

(***************************************************************************)
(* rules/rule_limit_without_orderby.py                                     *)
(***************************************************************************)
\* re.search(r'\bLIMIT\s+(\d+|[\w.]+)', sql, re.IGNORECASE)
has_limit(s) ==
    \E i \in 1..Len(s) :
        /\ WordBoundary(s, i)
        /\ StartsAtI(s, i, Word["LIMIT"])
        /\ LET a == i + Len(Word["LIMIT"])
               b == RunEnd(s, a, SpaceChars)
           IN  b > a /\ b <= Len(s) /\ IsWordOrDot(s[b])

\* re.search(r'\bORDER\s+BY\b', sql, re.IGNORECASE)
has_order_by(s) == HasPhrase(s, Word["ORDER"], Word["BY"])

\* the first line that holds r'\bLIMIT\b', 0 without one
find_limit_line(s) ==
    LET lines == SplitLines(s)
        hits == {n \in DOMAIN lines : HasKeyword(lines[n], Word["LIMIT"])}
    IN  IF hits = {} THEN 0 ELSE Min(hits)

LimitViolation(line) ==
    Violation("dict", "LIMIT_WITHOUT_ORDER_BY", "WARNING", line,
              "LIMIT used without ORDER BY - results may be nondeterministic.")

RuleLimitWithoutOrderBy_check(s) ==
    LET normalized_sql == normalize_sql(s)
        limit_line == find_limit_line(normalized_sql)
    IN  IF ~has_limit(normalized_sql) THEN <<>>
        ELSE IF ~has_order_by(normalized_sql) /\ limit_line > 0
             THEN <<LimitViolation(limit_line)>>
             ELSE <<>>

(***************************************************************************)
(* Inputs of the SELECT * and LIMIT rules: a statement                     *)
(*   <select> FROM t <mid> <sep> <limit> <second>                          *)
(***************************************************************************)
SelTexts ==
    "SelectStar" :> <<"S", "E", "L", "E", "C", "T", " ", "*">>
    @@ "SelectStarLower" :> <<"s", "e", "l", "e", "c", "t", " ", " ", "*">>
    @@ "SelectA" :> <<"S", "E", "L", "E", "C", "T", " ", "a">>
    @@ "SelectStarLimitCol" :> <<"S", "E", "L", "E", "C", "T", " ", "*", ",",
           " ", "t", ".", "l", "i", "m", "i", "t">>
    @@ "FromT" :> <<" ", "F", "R", "O", "M", " ", "t">>
    @@ "BlockComment" :> <<" ", "/", "*", " ", "a", "\n", "b", " ", "*", "/">>
    @@ "TrailingComment" :> <<" ", "-", "-", " ", "c">>
    @@ "OrderByX" :> <<" ", "O", "R", "D", "E", "R", " ", "B", "Y", " ", "x">>
    @@ "Limit10" :> <<"L", "I", "M", "I", "T", " ", "1", "0">>
    @@ "LimitLower" :> <<"l", "i", "m", "i", "t", " ", "n">>
    @@ "SecondSelectStar" :> <<";", "\n", "S", "E", "L", "E", "C", "T", " ",
           "*", " ", "F", "R", "O", "M", " ", "u">>
    @@ "QPlain" :> <<"S", "E", "L", "E", "C", "T", " ", "a", " ", "F", "R",
           "O", "M", " ", "t">>
    @@ "QLimit" :> <<"S", "E", "L", "E", "C", "T", " ", "a", " ", "F", "R",
           "O", "M", " ", "t", " ", "L", "I", "M", "I", "T", " ", "1", "0">>
    @@ "QOrderLimit" :> <<"S", "E", "L", "E", "C", "T", " ", "a", " ", "F",
           "R", "O", "M", " ", "t", " ", "O", "R", "D", "E", "R", " ", "B",
           "Y", " ", "a", " ", "L", "I", "M", "I", "T", " ", "1", "0">>
    @@ "QWindowLimit" :> <<"S", "E", "L", "E", "C", "T", " ", "R", "A", "N",
           "K", "(", ")", " ", "O", "V", "E", "R", " ", "(", "O", "R", "D",
           "E", "R", " ", "B", "Y", " ", "a", ")", " ", "F", "R", "O", "M",
           " ", "t", " ", "L", "I", "M", "I", "T", " ", "1", "0">>
    @@ "QSubLimit" :> <<"S", "E", "L", "E", "C", "T", " ", "a", " ", "F",
           "R", "O", "M", " ", "(", "S", "E", "L", "E", "C", "T", " ", "a",
           " ", "F", "R", "O", "M", " ", "t", " ", "L", "I", "M", "I", "T",
           " ", "1", "0", ")", " ", "s", " ", "O", "R", "D", "E", "R", " ",
           "B", "Y", " ", "a">>

SelGens ==
    [select : {SelTexts["SelectStar"], SelTexts["SelectStarLower"], SelTexts["SelectA"],
               SelTexts["SelectStarLimitCol"]},
     mid : {<<>>, SelTexts["BlockComment"], SelTexts["TrailingComment"], SelTexts["OrderByX"]},
     sep : {<<" ">>, <<"\n">>},
     limit : {<<>>, SelTexts["Limit10"], SelTexts["LimitLower"]},
     second : {<<>>, SelTexts["SecondSelectStar"]}]

SelText(g) ==
    g.select \o SelTexts["FromT"] \o g.mid \o g.sep \o g.limit \o g.second

InitSelectLimit ==
    /\ gen \in SelGens
    /\ sql = SelText(gen)
    /\ pos = 0
    /\ op = "none"
    /\ out = NoValue
    /\ prev = NoValue

CheckSelectStar ==
    /\ op = "none"
    /\ op' = "RuleSelectStar.check"
    /\ out' = RuleSelectStar_check(sql)
    /\ UNCHANGED <<sql, gen, pos, prev>>

CheckLimitWithoutOrderBy ==
    /\ op = "none"
    /\ op' = "RuleLimitWithoutOrderBy.check"
    /\ out' = RuleLimitWithoutOrderBy_check(sql)
    /\ UNCHANGED <<sql, gen, pos, prev>>

NextSelectLimit == CheckSelectStar \/ CheckLimitWithoutOrderBy

SpecSelectLimit == InitSelectLimit /\ [][NextSelectLimit]_vars

\* what the pieces of a generated statement say about it
SelHasStar(g) == g.select # SelTexts["SelectA"] \/ g.second # <<>>

\* the statement has a LIMIT clause (one that no line comment swallows)
SelHasLimitClause(g) ==
    g.limit # <<>> /\ ~(g.mid = SelTexts["TrailingComment"] /\ g.sep = <<" ">>)

\* the line of the text on which the LIMIT clause stands
LimitClauseLine(g) ==
    1 + CountNewlines(g.select \o SelTexts["FromT"] \o g.mid \o g.sep)

\* the lines of the text on which a `SELECT *` stands
SelectStarLines(g) ==
    (IF g.select # SelTexts["SelectA"] THEN {1} ELSE {})
    \cup (IF g.second # <<>> THEN {1 + CountNewlines(SelText(g))} ELSE {})

\* C8: for a text with `SELECT *`, a LIMIT clause and no ORDER BY,
\* RuleSelectStar.check returns exactly one SELECT_STAR violation per
\* `SELECT *`, on its line, and RuleLimitWithoutOrderBy.check returns exactly
\* one LIMIT_WITHOUT_ORDER_BY violation, on the line of the LIMIT clause.
C8_SelectStarAndLimit ==
    (SelHasStar(gen) /\ SelHasLimitClause(gen) /\ gen.mid # SelTexts["OrderByX"])
    => /\ op = "RuleSelectStar.check"
          => /\ Len(out) = Cardinality(SelectStarLines(gen))
             /\ \A n \in SelectStarLines(gen) :
                    Cardinality(ViolationsOn(out, n)) = 1
             /\ \A k \in 1..Len(out) : out[k].rule = "SELECT_STAR"
       /\ op = "RuleLimitWithoutOrderBy.check"
          => /\ Len(out) = 1
             /\ out[1].rule = "LIMIT_WITHOUT_ORDER_BY"
             /\ out[1].line = LimitClauseLine(gen)

(***************************************************************************)
(* rules/rule_keyword_case.py                                              *)
(***************************************************************************)
\* KEYWORDS, each as the list of its words (the patterns ignore case)
KEYWORDS ==
    << <<Word["SELECT"]>>, <<Word["FROM"]>>, <<Word["WHERE"]>>, <<Word["GROUP"], Word["BY"]>>,
       <<Word["ORDER"], Word["BY"]>>, <<Word["LIMIT"]>>, <<Word["HAVING"]>>, <<Word["JOIN"]>>,
       <<Word["LEFT"], Word["JOIN"]>>, <<Word["RIGHT"], Word["JOIN"]>>, <<Word["INNER"], Word["JOIN"]>>,
       <<Word["OUTER"], Word["JOIN"]>>, <<Word["ON"]>> >>

\* len(kw) of the keyword string: its words and one space between them
KeywordLength(parts) == Len(JoinWith(parts, <<" ">>))

\* the index the k-th keyword gets from
\* patterns.sort(key=lambda x: len(x[0]), reverse=True), a stable sort
SortedRank(k) ==
    1 + Cardinality({j \in DOMAIN KEYWORDS :
            \/ KeywordLength(KEYWORDS[j]) > KeywordLength(KEYWORDS[k])
            \/ /\ KeywordLength(KEYWORDS[j]) = KeywordLength(KEYWORDS[k])
               /\ j < k})

SortedPatterns ==
    [r \in DOMAIN KEYWORDS |->
        KEYWORDS[CHOOSE k \in DOMAIN KEYWORDS : SortedRank(k) = r]]

\* the index of the first q at or after j, 0 when there is none
NextQuote(line, j, q) ==
    LET qs == {k \in j..Len(line) : line[k] = q}
    IN  IF qs = {} THEN 0 ELSE Min(qs)

\* the closing quote of q([^q]|qq)*q for a body that starts at j, 0 when the
\* pattern cannot match: a doubled quote is taken as part of the body first,
\* and its first quote closes the literal when nothing closes it later
RECURSIVE CloseQuote(_, _, _)
CloseQuote(line, j, q) ==
    LET k == NextQuote(line, j, q)
        later == CloseQuote(line, k + 2, q)
    IN  IF k = 0 THEN 0
        ELSE IF k < Len(line) /\ line[k + 1] = q
             THEN (IF later # 0 THEN later ELSE k)
             ELSE k

\* the literal forgotten: a single blank for the whole match
Blanks_Single(n) == <<" ">>

Blanks(n) == [k \in 1..n |-> " "]

\* re.sub(q([^q]|qq)*q, _replacer, line) from i on: every match becomes
\* blanks of its length
RECURSIVE MaskFrom(_, _, _)
MaskFrom(line, i, q) ==
    LET opens == {j \in i..Len(line) :
                    line[j] = q /\ CloseQuote(line, j + 1, q) # 0}
        first == Min(opens)
        close == CloseQuote(line, first + 1, q)
    IN  IF opens = {} THEN Slice(line, i, Len(line) + 1)
        ELSE Slice(line, i, first) \o Blanks(close - first + 1)
             \o MaskFrom(line, close + 1, q)

\* the line scanned as it is
mask_quotes_Identity(line) == line

\* RuleKeywordCase._mask_quotes: single quotes first, then double quotes
mask_quotes(line) == MaskFrom(MaskFrom(line, 1, "'"), 1, "\"")

\* the end (exclusive) of words[k..] joined by \s+ matched at i, 0 if not
RECURSIVE WordsEnd(_, _, _, _)
WordsEnd(line, i, words, k) ==
    LET a == i + Len(words[k])
        b == RunEnd(line, a, SpaceChars)
    IN  IF ~StartsAtI(line, i, words[k]) THEN 0
        ELSE IF k = Len(words) THEN a
        ELSE IF b = a THEN 0
        ELSE WordsEnd(line, b, words, k + 1)

\* the end (exclusive) of a match of \bW1\s+W2\b (IGNORECASE) at i, 0 if none
KeywordEnd(line, i, words) ==
    LET e == WordsEnd(line, i, words, 1)
    IN  IF WordBoundary(line, i) /\ e # 0 /\ WordBoundary(line, e)
        THEN e ELSE 0

\* pat.finditer(line) from i on: the spans (s, e) of the matches
RECURSIVE KeywordSpans(_, _, _)
KeywordSpans(line, i, words) ==
    LET starts == {j \in i..Len(line) : KeywordEnd(line, j, words) # 0}
        s == Min(starts)
        e == KeywordEnd(line, s, words)
    IN  IF starts = {} THEN <<>>
        ELSE <<<<s, e>>>> \o KeywordSpans(line, e, words)

\* the message carries matched_text: the violation records it as message
KeywordViolation(line_num, matched_text) ==
    Violation("dict", "KEYWORD_CASE", "INFO", line_num, matched_text)

\* the body of `for m in pat.finditer(line)` over spans[k..]
RECURSIVE KeywordMatches(_, _, _, _, _)
KeywordMatches(raw_line, line_num, spans, k, st) ==
    IF k > Len(spans) THEN st
    ELSE LET s == spans[k][1]
             e == spans[k][2]
             in_span == \E sp \in Range(st.accepted_spans) :
                            s >= sp[1] /\ e <= sp[2]
             matched_text == Slice(raw_line, s, e)
         IN  IF in_span \/ matched_text = Upper(matched_text)
             THEN KeywordMatches(raw_line, line_num, spans, k + 1, st)
             ELSE KeywordMatches(raw_line, line_num, spans, k + 1,
                    [violations |->
                        Append(st.violations,
                               KeywordViolation(line_num, matched_text)),
                     accepted_spans |->
                        Append(st.accepted_spans, <<s, e>>)])

\* the loop body without the search of accepted_spans
RECURSIVE KeywordMatches_NoSpanCheck(_, _, _, _, _)
KeywordMatches_NoSpanCheck(raw_line, line_num, spans, k, st) ==
    IF k > Len(spans) THEN st
    ELSE LET s == spans[k][1]
             e == spans[k][2]
             matched_text == Slice(raw_line, s, e)
         IN  IF matched_text = Upper(matched_text)
             THEN KeywordMatches_NoSpanCheck(raw_line, line_num, spans,
                                             k + 1, st)
             ELSE KeywordMatches_NoSpanCheck(raw_line, line_num, spans, k + 1,
                    [violations |->
                        Append(st.violations,
                               KeywordViolation(line_num, matched_text)),
                     accepted_spans |->
                        Append(st.accepted_spans, <<s, e>>)])

\* an iteration that reports a match whatever spans were accepted before
PatternStep_NoSpanCheck(raw_line, line_num, line, words, st) ==
    KeywordMatches_NoSpanCheck(raw_line, line_num,
                               KeywordSpans(line, 1, words), 1, st)

\* one iteration of `for kw, pat in patterns`: the matches of a pattern
PatternStep(raw_line, line_num, line, words, st) ==
    KeywordMatches(raw_line, line_num, KeywordSpans(line, 1, words), 1, st)

\* `for kw, pat in patterns` from the p-th pattern on
RECURSIVE KeywordPatterns(_, _, _, _, _)
KeywordPatterns(raw_line, line_num, line, p, st) ==
    IF p > Len(SortedPatterns) THEN st
    ELSE KeywordPatterns(raw_line, line_num, line, p + 1,
            PatternStep(raw_line, line_num, line, SortedPatterns[p], st))

\* one iteration of `for line_num, raw_line in enumerate(lines, start=1)`
KeywordLine(raw_line, line_num) ==
    KeywordPatterns(raw_line, line_num, mask_quotes(raw_line), 1,
                    [violations |-> <<>>, accepted_spans |-> <<>>]).violations

RECURSIVE KeywordLinesFrom(_, _)
KeywordLinesFrom(lines, n) ==
    IF n > Len(lines) THEN <<>>
    ELSE KeywordLine(lines[n], n) \o KeywordLinesFrom(lines, n + 1)

RuleKeywordCase_check(s) == KeywordLinesFrom(SplitLines(normalize_sql(s)), 1)

(***************************************************************************)
(* RuleKeywordCase.check on generated lines of words                       *)
(***************************************************************************)
MaxWords == 3

KwTexts ==
    "LeftLower" :> <<"l", "e", "f", "t">>
    @@ "JoinLower" :> <<"j", "o", "i", "n">>
    @@ "OrderLower" :> <<"o", "r", "d", "e", "r">>
    @@ "ByLower" :> <<"b", "y">>
    @@ "X" :> <<"x">>
    @@ "Literal" :> <<"'", "x", "'">>
    @@ "OrderByXLower" :> <<"o", "r", "d", "e", "r", " ", "b", "y", " ", "x">>

KwWordChoices ==
    {KwTexts["LeftLower"], Word["LEFT"], KwTexts["JoinLower"], Word["JOIN"], KwTexts["OrderLower"], KwTexts["ByLower"],
     KwTexts["X"], KwTexts["Literal"]}

\* the words of the text and what separates them: a space or a line break
KwGens ==
    [words : TextsUpTo(KwWordChoices, MaxWords), sep : {<<" ">>, <<"\n">>}]

KwText(g) == JoinWith(g.words, g.sep)

InitKeywordCase ==
    /\ gen \in KwGens
    /\ sql = KwText(gen)
    /\ pos = 0
    /\ op = "none"
    /\ out = NoValue
    /\ prev = NoValue

CheckKeywordCase ==
    /\ op = "none"
    /\ op' = "RuleKeywordCase.check"
    /\ out' = RuleKeywordCase_check(sql)
    /\ UNCHANGED <<sql, gen, pos, prev>>

NextKeywordCase == CheckKeywordCase

SpecKeywordCase == InitKeywordCase /\ [][NextKeywordCase]_vars

\* the multi-word keywords of KEYWORDS
KeywordPhrases == {kw \in Range(KEYWORDS) : Len(kw) > 1}

\* words k and k+1 of the text are an occurrence of a multi-word keyword
PhraseAt(g, k) ==
    /\ g.sep = <<" ">>
    /\ k \in 1..(Len(g.words) - 1)
    /\ <<Upper(g.words[k]), Upper(g.words[k + 1])>> \in KeywordPhrases

PhraseText(g, k) == g.words[k] \o <<" ">> \o g.words[k + 1]

\* the occurrences that are not entirely uppercase
LowerPhrasesAt(g) ==
    {k \in 1..Len(g.words) :
        PhraseAt(g, k) /\ PhraseText(g, k) # Upper(PhraseText(g, k))}

\* the single-word keywords of the text that are not entirely uppercase and
\* lie in no occurrence of a multi-word keyword that is not entirely uppercase
LoneLowerKeywordsAt(g) ==
    {k \in 1..Len(g.words) :
        /\ <<Upper(g.words[k])>> \in Range(KEYWORDS)
        /\ g.words[k] # Upper(g.words[k])
        /\ k \notin LowerPhrasesAt(g)
        /\ (k - 1) \notin LowerPhrasesAt(g)}

ViolationsWithText(vs, text) ==
    {k \in 1..Len(vs) : vs[k].message = text}

\* C10: RuleKeywordCase.check reports an occurrence of a multi-word keyword
\* that is not entirely uppercase exactly once, and reports no further
\* violation for a keyword whose span lies inside it: "LEFT join" gives one
\* violation and none for the join in it, "order by x" gives exactly one.
C10_PhraseReportedOnce ==
    op = "RuleKeywordCase.check" =>
        /\ \A k \in LowerPhrasesAt(gen) :
              Cardinality(ViolationsWithText(out, PhraseText(gen, k)))
                  = Cardinality({j \in LowerPhrasesAt(gen) :
                                    PhraseText(gen, j) = PhraseText(gen, k)})
        /\ \A w \in Range(gen.words) :
              <<Upper(w)>> \in Range(KEYWORDS) =>
                  Cardinality(ViolationsWithText(out, w))
                      <= Cardinality({j \in LoneLowerKeywordsAt(gen) :
                                         gen.words[j] = w})
        /\ sql = KwTexts["OrderByXLower"] =>
              /\ Len(out) = 1
              /\ out[1].message = Slice(KwTexts["OrderByXLower"], 1, 9)

\* "LEFT join" has been checked and the one violation is the phrase's
C10_Witness ==
    /\ op = "RuleKeywordCase.check"
    /\ gen.words = <<Word["LEFT"], KwTexts["JoinLower"]>>
    /\ gen.sep = <<" ">>
    /\ Len(out) = 1
    /\ out[1].message = PhraseText(gen, 1)

(***************************************************************************)
(* _mask_quotes and the keyword scan on lines with quoted literals          *)
(***************************************************************************)
\* the positions of the matches of q([^q]|qq)*q in line from i on: the
\* positions _replacer blanks
RECURSIVE MaskedPositions(_, _, _)
MaskedPositions(line, i, q) ==
    LET opens == {j \in i..Len(line) :
                    line[j] = q /\ CloseQuote(line, j + 1, q) # 0}
        first == Min(opens)
        close == CloseQuote(line, first + 1, q)
    IN  IF opens = {} THEN {}
        ELSE (first..close) \cup MaskedPositions(line, close + 1, q)

\* the positions either pass of _mask_quotes blanks
BlankedPositions(line) ==
    MaskedPositions(line, 1, "'")
        \cup MaskedPositions(MaskFrom(line, 1, "'"), 1, "\"")

\* the spans m.span() of all matches of all patterns on a line of check
KeywordMatchSpans(raw_line) ==
    UNION {Range(KeywordSpans(mask_quotes(raw_line), 1, SortedPatterns[p])) :
              p \in DOMAIN SortedPatterns}

QuoteTexts ==
    "Join" :> <<"j", "o", "i", "n">>
    @@ "X" :> <<"x">>
    @@ "SingleJoin" :> <<"'", "j", "o", "i", "n", "'">>
    @@ "DoubleApostrophe" :> <<"\"", "i", "t", "'", "s", "\"">>
    @@ "SingleDouble" :> <<"'", "s", "a", "y", " ", "\"", "'">>
    @@ "Escaped" :> <<"'", "i", "t", "'", "'", "s", " ", "j", "o", "i", "n", "'">>
    @@ "Unterminated" :> <<"'", "u", "n">>
    @@ "UnterminatedDouble" :> <<"\"", "u", "n">>

QuoteWordChoices == {QuoteTexts[k] : k \in DOMAIN QuoteTexts}

\* a line of words and quoted literals, one space between them
QuoteGens == [words : TextsUpTo(QuoteWordChoices, MaxWords), sep : {<<" ">>}]

InitQuotes ==
    /\ gen \in QuoteGens
    /\ sql = KwText(gen)
    /\ pos = 0
    /\ op = "none"
    /\ out = NoValue
    /\ prev = NoValue

MaskQuotes ==
    /\ op = "none"
    /\ op' = "_mask_quotes"
    /\ out' = mask_quotes(sql)
    /\ UNCHANGED <<sql, gen, pos, prev>>

\* the matches check finds on the line (lines 81-87)
ScanKeywords ==
    /\ op = "none"
    /\ op' = "finditer"
    /\ out' = KeywordMatchSpans(sql)
    /\ UNCHANGED <<sql, gen, pos, prev>>

NextQuotes == MaskQuotes \/ ScanKeywords \/ CheckKeywordCase

SpecQuotes == InitQuotes /\ [][NextQuotes]_vars

\* the words of the line that are complete string literals
QuoteLiterals ==
    {QuoteTexts["SingleJoin"], QuoteTexts["DoubleApostrophe"],
     QuoteTexts["SingleDouble"], QuoteTexts["Escaped"]}

UnterminatedWords ==
    {QuoteTexts["Unterminated"], QuoteTexts["UnterminatedDouble"]}

\* every quote of the line belongs to a complete literal
WellQuoted(g) == Range(g.words) \cap UnterminatedWords = {}

\* C11: RuleKeywordCase.check never reports a keyword whose text lies inside
\* a single- or double-quoted string literal of its line: each violation is
\* for a keyword that stands outside the literals, at most once per such
\* keyword.
C11_NoKeywordInsideLiteral ==
    (op = "RuleKeywordCase.check" /\ WellQuoted(gen)) =>
        \A k \in 1..Len(out) :
            /\ out[k].message = QuoteTexts["Join"]
            /\ Cardinality(ViolationsWithText(out, out[k].message))
                   <= Cardinality({j \in 1..Len(gen.words) :
                                      gen.words[j] = out[k].message})

\* C12: _mask_quotes returns a line of exactly the length of its input, for
\* every line, lines with an unterminated single or double quote included.
C12_MaskKeepsLength ==
    op = "_mask_quotes" => Len(out) = Len(sql)

\* a line with an unterminated quote has been masked and a literal blanked
C12_Witness ==
    /\ op = "_mask_quotes"
    /\ ~WellQuoted(gen)
    /\ out # sql

\* C13: in RuleKeywordCase.check no keyword match has a span that starts at
\* a position that _mask_quotes blanked on that line.
C13_NoMatchStartsInBlanked ==
    op = "finditer" => \A sp \in out : sp[1] \notin BlankedPositions(sql)

\* a line with a blanked literal on which a keyword was matched
C13_Witness ==
    /\ op = "finditer"
    /\ out # {}
    /\ BlankedPositions(sql) # {}

(***************************************************************************)
(* linter.py and utils/file_utils.py.  A file is a record of its name, its  *)
(* text and its state: "ok", "unreadable" (open or decoding fails) or       *)
(* "vanished" (listed by os.walk, gone when it is read).  A call returns a  *)
(* value or raises: [raised, value].                                        *)
(***************************************************************************)
MaxFiles == 2

Returned(v) == [raised |-> None, value |-> v]

Raised(e) == [raised |-> e, value |-> NoValue]

\* the rule classes of rules/, by module name; os.listdir fixes no order
ShippedRules ==
    <<"RuleKeywordCase", "RuleLimitWithoutOrderBy", "RuleSelectStar",
      "RuleUnqualifiedColumns", "RuleWindowOrderBy">>

Reverse(s) == [k \in 1..Len(s) |-> s[Len(s) + 1 - k]]

\* file=file_name / "file": file_name of every violation of a check
WithFile(vs, file_name) ==
    [k \in 1..Len(vs) |-> [file |-> file_name] @@ vs[k]]

\* rule.check(sql_content, file_path); a rule class that is not one of the
\* shipped ones stands for a rule whose check raises
RuleCheck(rule, sql_content, file_path) ==
    CASE rule = "RuleKeywordCase" ->
            Returned(WithFile(RuleKeywordCase_check(sql_content), file_path))
      [] rule = "RuleLimitWithoutOrderBy" ->
            Returned(WithFile(RuleLimitWithoutOrderBy_check(sql_content),
                              file_path))
      [] rule = "RuleSelectStar" ->
            Returned(WithFile(RuleSelectStar_check(sql_content), file_path))
      [] rule = "RuleUnqualifiedColumns" ->
            Returned(WithFile(RuleUnqualifiedColumns_check(sql_content),
                              file_path))
      [] rule = "RuleWindowOrderBy" ->
            Returned(WithFile(RuleWindowOrderBy_check(sql_content), file_path))
      [] OTHER -> Raised("Exception")

read_sql_file(files, file_path) ==
    LET found == {k \in DOMAIN files : files[k].name = file_path}
        f == files[CHOOSE k \in found : TRUE]
    IN  IF found = {} \/ f.state = "vanished" THEN Raised("FileNotFoundError")
        ELSE IF f.state = "unreadable" THEN Raised("IOError")
        ELSE Returned(f.text)

get_sql_files(files) == [k \in DOMAIN files |-> files[k].name]

\* the for loop of lint_file from the k-th rule on, checked[k] being what
\* rules[k].check returns or raises: the loop ends at the first that raises
RECURSIVE LintRules(_, _, _)
LintRules(checked, k, file_violations) ==
    IF k > Len(checked) THEN Returned(file_violations)
    ELSE IF checked[k].raised # None THEN checked[k]
    ELSE LintRules(checked, k + 1, file_violations \o checked[k].value)

\* the lines of the try after sql_content is read (or the read has raised)
LintContent(rules, sql_content, file_path) ==
    IF sql_content.raised # None THEN sql_content
    ELSE LintRules([k \in DOMAIN rules |->
                       RuleCheck(rules[k], sql_content.value, file_path)],
                   1, <<>>)

\* the body of the try of lint_file
LintFileBody(rules, files, file_path) ==
    LintContent(rules, read_sql_file(files, file_path), file_path)

\* lint_file without its except clause
lint_file_Propagating(rules, files, file_path) ==
    [stdout |-> <<>>] @@ LintFileBody(rules, files, file_path)

\* except Exception as e: print(...); return []
CatchAll(body) ==
    IF body.raised # None
    THEN [raised |-> None, value |-> <<>>,
          stdout |-> <<"Error linting file">>]
    ELSE [raised |-> None, value |-> body.value, stdout |-> <<>>]

\* SnowflakeLinter.lint_file: [raised, value, stdout]
lint_file(rules, files, file_path) ==
    CatchAll(LintFileBody(rules, files, file_path))

\* the for loop of lint_directory from the k-th file on, linted[k] being
\* the outcome of lint_file(sql_files[k])
RECURSIVE LintFiles(_, _, _)
LintFiles(linted, k, acc) ==
    IF k > Len(linted) THEN acc
    ELSE IF linted[k].raised # None
         THEN [raised |-> linted[k].raised, value |-> NoValue,
               stdout |-> acc.stdout \o linted[k].stdout]
    ELSE LintFiles(linted, k + 1,
                   [raised |-> None, value |-> acc.value \o linted[k].value,
                    stdout |-> acc.stdout \o linted[k].stdout])

\* SnowflakeLinter.lint_directory: [raised, value, stdout]; the caller
\* stores value in self.violations
lint_directory(rules, files) ==
    LintFiles([k \in DOMAIN files |->
                  lint_file(rules, files, get_sql_files(files)[k])],
              1, [raised |-> None, value |-> <<>>, stdout |-> <<>>])

(***************************************************************************)
(* lint_file and lint_directory on generated directories                   *)
(***************************************************************************)
FileTexts ==
    "Clean" :> <<"S", "E", "L", "E", "C", "T", " ", "a", " ", "F", "R", "O", "M", " ", "t">>
    @@ "Star" :> <<"S", "E", "L", "E", "C", "T", " ", "*", " ", "F", "R", "O", "M", " ", "t">>
    @@ "Lower" :> <<"s", "e", "l", "e", "c", "t", " ", "a", " ", "F", "R", "O", "M", " ", "t", " ", "L", "I", "M", "I", "T", " ", "1", "0">>

FileNames == <<"a.sql", "b.sql", "c.sql", "d.sql">>

MissingPath == "missing.sql"

\* what a file can be: a text of FileTexts, unreadable or vanished
FileChoices ==
    [state : {"ok"}, text : {FileTexts[k] : k \in DOMAIN FileTexts}]
        \cup [state : {"unreadable", "vanished"}, text : {<<>>}]

\* the files of a directory in the order of os.walk
NamedFiles(choices) ==
    [k \in DOMAIN choices |->
        [name |-> FileNames[k], state |-> choices[k].state,
         text |-> choices[k].text]]

FileLists == {NamedFiles(c) : c \in TextsUpTo(FileChoices, MaxFiles)}

\* the rules loaded: the shipped ones in two orders, or with a rule that raises
RuleLists ==
    {ShippedRules, Reverse(ShippedRules),
     <<"RuleKeywordCase", "RuleRaising", "RuleSelectStar">>}

LintGens == [files : FileLists, rules : RuleLists]

LinterObject(violations, result) ==
    [violations |-> violations, raised |-> result.raised,
     returned |-> result.value, stdout |-> result.stdout]

InitLint ==
    /\ gen \in LintGens
    /\ sql = NoValue
    /\ pos = 0
    /\ op = "none"
    /\ out = LinterObject(<<>>, [stdout |-> <<>>] @@ Returned(NoValue))
    /\ prev = NoValue

\* linter.lint_file(path), path the k-th file or a path that does not exist
LintFile ==
    /\ op = "none"
    /\ \E k \in 0..Len(gen.files) :
          /\ pos' = k
          /\ out' = LinterObject(out.violations,
                        lint_file(gen.rules, gen.files,
                                  IF k = 0 THEN MissingPath
                                  ELSE gen.files[k].name))
    /\ op' = "lint_file"
    /\ UNCHANGED <<sql, gen, prev>>

\* self.violations = all_violations, unless the call has raised
AfterLintDirectory(violations, result) ==
    LinterObject(IF result.raised = None THEN result.value ELSE violations,
                 result)

LintDirectory ==
    /\ op = "none"
    /\ op' = "lint_directory"
    /\ out' = AfterLintDirectory(out.violations,
                                 lint_directory(gen.rules, gen.files))
    /\ UNCHANGED <<sql, gen, pos, prev>>

NextLint == LintFile \/ LintDirectory

SpecLint == InitLint /\ [][NextLint]_vars

\* a rule whose check raises is loaded
RaisingLoaded(g) == \E k \in DOMAIN g.rules : g.rules[k] \notin Range(ShippedRules)

\* the violations the rules that do not raise find in a file, rule by rule
ViolationsOfFile(g, f) ==
    Concat([k \in DOMAIN g.rules |->
               IF g.rules[k] \in Range(ShippedRules)
               THEN RuleCheck(g.rules[k], f.text, f.name).value
               ELSE <<>>])

\* the violations of a list that are filed under a name
FiledUnder(vs, name) ==
    LET IsOfFile(v) == v.file = name
    IN  SelectSeq(vs, IsOfFile)

\* the path lint_file was called with cannot be read
ReadFails(g, k) == k = 0 \/ g.files[k].state # "ok"

\* C15: a failure to read one file aborts only that file's scan: lint_file
\* does not propagate the exception and returns no violation for the file,
\* and lint_directory holds the violations of every other file.
C15_ReadFailureSkipsOneFile ==
    /\ op = "lint_file" =>
          /\ out.raised = None
          /\ ReadFails(gen, pos) => out.returned = <<>>
    /\ (op = "lint_directory" /\ ~RaisingLoaded(gen)) =>
          /\ out.raised = None
          /\ \A k \in DOMAIN gen.files :
                FiledUnder(out.returned, gen.files[k].name)
                    = IF gen.files[k].state = "ok"
                      THEN ViolationsOfFile(gen, gen.files[k])
                      ELSE <<>>

\* a directory was linted whose first file cannot be read and whose second
\* file has violations
C15_Witness ==
    /\ op = "lint_directory"
    /\ ~RaisingLoaded(gen)
    /\ Len(gen.files) = 2
    /\ gen.files[1].state # "ok"
    /\ FiledUnder(out.returned, gen.files[2].name) # <<>>

\* C16: when one rule's check raises on a file, lint_file does not propagate
\* the exception and its result still holds the complete violation lists of
\* the rules that did not raise.
C16_OtherRulesKept ==
    (op = "lint_file" /\ ~ReadFails(gen, pos) /\ RaisingLoaded(gen)) =>
        /\ out.raised = None
        /\ out.returned = ViolationsOfFile(gen, gen.files[pos])

(***************************************************************************)
(* Reports: utils/file_utils.py write_report and the printing methods of   *)
(* SnowflakeLinter.  The file system is [dirs, files]: the directories     *)
(* that exist and the (path, content) pairs of the files written.          *)
(***************************************************************************)
\* os.path.dirname: the text before the last "/", without trailing slashes
dirname(path) ==
    LET slashes == {i \in 1..Len(path) : path[i] = "/"}
        last == CHOOSE i \in slashes : \A j \in slashes : j <= i
        head == SubSeq(path, 1, last)
        kept == {i \in 1..Len(head) : head[i] # "/"}
    IN  IF slashes = {} THEN <<>>
        ELSE IF kept = {} THEN head
        ELSE SubSeq(head, 1, CHOOSE i \in kept : \A j \in kept : j <= i)

\* the directory name and the directories above it
Ancestors(name) ==
    {SubSeq(name, 1, i - 1) : i \in {j \in 2..Len(name) : name[j] = "/"}}
        \cup {name}

\* os.makedirs(name, exist_ok=True): [raised, value], value the directories
makedirs(dirs, name) ==
    IF name = <<>> THEN Raised("FileNotFoundError")
    ELSE Returned(dirs \cup Ancestors(name))

\* write_report(report_path, content): [raised, value], value the file system
write_report(fs, report_path, content) ==
    LET made == makedirs(fs.dirs, dirname(report_path))
    IN  IF made.raised # None THEN Raised(made.raised)
        ELSE Returned([dirs |-> made.value,
                       files |-> {f \in fs.files : f[1] # report_path}
                                    \cup {<<report_path, content>>}])

IsLintResult(v) == v.kind = "LintResult"

\* the rule names of a list of violations in sorted order
SortedRuleNames(vs) ==
    LET names == <<"KEYWORD_CASE", "LIMIT_WITHOUT_ORDER_BY", "SELECT_STAR",
                   "UNQUALIFIED_COLUMNS", "WINDOW_MISSING_ORDER_BY">>
        IsUsed(n) == \E k \in DOMAIN vs : vs[k].rule = n
    IN  SelectSeq(names, IsUsed)

\* the text generate_report builds: the header and one section per rule
ReportText(vs) ==
    LET names == SortedRuleNames(vs)
    IN  [header |-> "SNOWFLAKE SQL LINTER REPORT",
         sections |->
            [k \in DOMAIN names |->
                LET HasRule(v) == v.rule = names[k]
                IN  [rule |-> names[k],
                     violations |-> SelectSeq(vs, HasRule)]]]

\* generate_report(output_path): [raised, value, stdout], value the file
\* system; violation['rule'] raises on a LintResult
generate_report(vs, fs, output_path) ==
    LET written == write_report(fs, output_path, ReportText(vs))
    IN  IF \E k \in DOMAIN vs : IsLintResult(vs[k])
        THEN [stdout |-> <<>>] @@ Raised("TypeError")
        ELSE IF written.raised # None THEN [stdout |-> <<>>] @@ written
        ELSE [stdout |-> <<"Report written to">>] @@ written

\* print_violations: [raised, stdout]; violation['file'] raises on the first
\* LintResult, after the lines before it are printed
print_violations(vs) ==
    LET objects == {k \in DOMAIN vs : IsLintResult(vs[k])}
        n == IF objects = {} THEN Len(vs) ELSE Min(objects) - 1
    IN  IF vs = <<>>
        THEN [raised |-> None, stdout |-> <<"No violations found!">>]
        ELSE [raised |-> IF objects = {} THEN None ELSE "TypeError",
              stdout |-> <<"Found violation(s)">>
                           \o [k \in 1..n |-> "violation line"]]

CountWhere(vs, field, x) == Cardinality({k \in DOMAIN vs : vs[k][field] = x})

\* get_summary: [raised, value]; v.get raises on a LintResult
get_summary(vs) ==
    IF \E k \in DOMAIN vs : IsLintResult(vs[k])
    THEN Raised("AttributeError")
    ELSE Returned(
        [total_violations |-> Len(vs),
         violations_by_rule |->
            [r \in {vs[k].rule : k \in DOMAIN vs} |-> CountWhere(vs, "rule", r)],
         violations_by_severity |->
            [s \in {vs[k].severity : k \in DOMAIN vs} |->
                CountWhere(vs, "severity", s)],
         files_checked |-> Cardinality({vs[k].file : k \in DOMAIN vs})])

\* print_summary: [raised, stdout]
print_summary(vs) ==
    LET summary == get_summary(vs)
    IN  IF summary.raised # None
        THEN [raised |-> summary.raised, stdout |-> <<>>]
        ELSE [raised |-> None, stdout |-> <<"LINTING SUMMARY">>]

(***************************************************************************)
(* linter.py main: the run of the command line.  gen is the command line    *)
(* and what it finds on disk; out is the process: the linter's violations, *)
(* main's local violations, the output, the file system and the exit code. *)
(* An exception nothing catches ends the interpreter with exit code 1.      *)
(***************************************************************************)
ReportPaths ==
    "Bare" :> <<"r", "e", "s", "u", "l", "t", "s", ".", "t", "x", "t">>
    @@ "Nested" :> <<"r", "e", "p", "o", "r", "t", "s", "/", "r", "e", "s", "u", "l", "t", "s", ".", "t", "x", "t">>
    @@ "Reports" :> <<"r", "e", "p", "o", "r", "t", "s">>

MainGens ==
    [kind : {"missing", "other"}, files : {<<>>},
     report : {<<>>, ReportPaths["Bare"], ReportPaths["Nested"]},
     verbose : BOOLEAN, dirs : {{}, {ReportPaths["Reports"]}},
     rules : {ShippedRules}]
    \cup
    [kind : {"file", "dir"}, files : FileLists,
     report : {<<>>, ReportPaths["Bare"], ReportPaths["Nested"]},
     verbose : BOOLEAN, dirs : {{}, {ReportPaths["Reports"]}},
     rules : {ShippedRules}]

InitMain ==
    /\ gen \in MainGens
    /\ gen.kind = "file" => Len(gen.files) = 1
    /\ sql = NoValue
    /\ pos = 0
    /\ op = "none"
    /\ out = [violations |-> <<>>, returned |-> NoValue, stdout |-> <<>>,
              exit_code |-> None, raised |-> None, reported |-> FALSE,
              fs |-> [dirs |-> gen.dirs, files |-> {}]]
    /\ prev = NoValue

\* sys.exit(code)
Exit(code, printed) ==
    /\ op' = "exit"
    /\ out' = [out EXCEPT !.exit_code = code,
                          !.stdout = out.stdout \o printed]

\* an exception leaves main
Uncaught(e, printed) ==
    /\ op' = "exit"
    /\ out' = [out EXCEPT !.exit_code = 1, !.raised = e,
                          !.stdout = out.stdout \o printed]

\* lines 244-264: the arguments, the linter, the banner, path.exists()
MainResolvePath ==
    /\ op = "none"
    /\ IF gen.kind = "missing"
       THEN Exit(1, <<"Snowflake SQL Linter", "Error: Path not found">>)
       ELSE /\ op' = "main:resolved"
            /\ out' = [out EXCEPT !.stdout = <<"Snowflake SQL Linter">>]
    /\ UNCHANGED <<sql, gen, pos, prev>>

\* violations = ...; linter.violations = violations
MainLinted(linted) ==
    /\ op' = "main:linted"
    /\ out' = [out EXCEPT !.violations = linted.value,
                          !.returned = linted.value,
                          !.stdout = out.stdout \o <<"Linting">>
                                        \o linted.stdout]

\* lines 266-279: lint_file or lint_directory
MainLint ==
    /\ op = "main:resolved"
    /\ CASE gen.kind = "file" ->
               MainLinted(lint_file(gen.rules, gen.files, gen.files[1].name))
         [] gen.kind = "dir" ->
               MainLinted(lint_directory(gen.rules, gen.files))
         [] OTHER ->
               Exit(1, <<"Error: Path is neither file nor directory">>)
    /\ UNCHANGED <<sql, gen, pos, prev>>

\* lines 281-288: print_violations, print_summary
MainPrintResults ==
    /\ op = "main:linted"
    /\ LET listed == IF gen.verbose THEN print_violations(out.violations)
                     ELSE [raised |-> None, stdout |-> <<>>]
           summed == print_summary(out.violations)
       IN  IF out.returned = <<>>
           THEN /\ op' = "main:printed"
                /\ out' = [out EXCEPT
                             !.stdout = out.stdout
                                           \o <<"No violations found!">>]
           ELSE IF listed.raised # None
                THEN Uncaught(listed.raised, listed.stdout)
           ELSE IF summed.raised # None
                THEN Uncaught(summed.raised, listed.stdout \o summed.stdout)
           ELSE /\ op' = "main:printed"
                /\ out' = [out EXCEPT
                             !.stdout = out.stdout \o listed.stdout
                                           \o summed.stdout]
    /\ UNCHANGED <<sql, gen, pos, prev>>

\* lines 290-292: generate_report unless args.report is None (the empty path)
MainReport ==
    /\ op = "main:printed"
    /\ LET report == generate_report(out.violations, out.fs, gen.report)
       IN  IF gen.report = <<>>
           THEN op' = "main:reported" /\ out' = out
           ELSE IF report.raised # None
                THEN /\ op' = "exit"
                     /\ out' = [out EXCEPT !.exit_code = 1,
                                           !.raised = report.raised,
                                           !.reported = TRUE]
           ELSE /\ op' = "main:reported"
                /\ out' = [out EXCEPT !.fs = report.value,
                                      !.reported = TRUE,
                                      !.stdout = out.stdout \o report.stdout]
    /\ UNCHANGED <<sql, gen, pos, prev>>

\* line 295: sys.exit(0 if not violations else 1)
MainExit ==
    /\ op = "main:reported"
    /\ Exit(IF out.returned = <<>> THEN 0 ELSE 1, <<>>)
    /\ UNCHANGED <<sql, gen, pos, prev>>

NextMain ==
    MainResolvePath \/ MainLint \/ MainPrintResults \/ MainReport \/ MainExit

SpecMain == InitMain /\ [][NextMain]_vars

\* some rule reports a violation in a file of the path
AnyViolation(g) ==
    \E k \in DOMAIN g.files :
        g.files[k].state = "ok" /\ ViolationsOfFile(g, g.files[k]) # <<>>

\* C14: main exits with code 0 when linting the path yields no violations,
\* with code 1 when any rule reports a violation, and with a non-zero code
\* after an error message when the path does not exist, for every
\* combination of --report and --verbose.
C14_ExitCodes ==
    op = "exit" =>
        /\ gen.kind = "missing" =>
              /\ out.exit_code # 0
              /\ "Error: Path not found" \in Range(out.stdout)
        /\ gen.kind \in {"file", "dir"} =>
              out.exit_code = IF AnyViolation(gen) THEN 1 ELSE 0

\* C17: write_report writes the content to the path and creates the missing
\* parent directories, for every report path, a bare file name included:
\* once generate_report was called the report is on disk.
C17_ReportWritten ==
    out.reported =>
        /\ <<gen.report, ReportText(out.violations)>> \in out.fs.files
        /\ dirname(gen.report) # <<>> => dirname(gen.report) \in out.fs.dirs

\* C18: for each line inside the projection span, extract_select_columns
\* returns every run of word characters and dots that delimiters bound,
\* tokens separated by a single delimiter included: with FROM on a line
\* of its own, the result is the projection columns, each with its line.
C18_EveryProjectionToken ==
    (op = "extract_select_columns" /\ Len(gen.cols) > 0
        /\ gen.fromSep = <<"\n">>)
    => out = [k \in 1..Len(gen.cols) |-> <<ColumnLine(gen, k), gen.cols[k]>>]

(***************************************************************************)
(* is_unqualified on generated tokens: a head, in upper or lower case,     *)
(* and a tail                                                              *)
(***************************************************************************)
ToLower(c) ==
    IF c \in Range(UpperCase)
    THEN LowerCase[CHOOSE i \in DOMAIN UpperCase : UpperCase[i] = c]
    ELSE c

Lower(s) == [i \in 1..Len(s) |-> ToLower(s[i])]

TokenHeads ==
    FunctionPrefixes
        \cup {Word["NULL"], Word["TRUE"], Word["FALSE"], <<"*">>,
              UnqTexts["Amount"], UnqTexts["O"]}

TokenTails == {<<>>, <<"s">>, <<"_", "x">>, <<".", "x">>}

TokenGens == [head : TokenHeads, lower : BOOLEAN, tail : TokenTails]

TokenText(g) == (IF g.lower THEN Lower(g.head) ELSE g.head) \o g.tail

InitToken ==
    /\ gen \in TokenGens
    /\ sql = TokenText(gen)
    /\ pos = 0
    /\ op = "none"
    /\ out = NoValue
    /\ prev = NoValue

IsUnqualified ==
    /\ op = "none"
    /\ op' = "is_unqualified"
    /\ out' = is_unqualified(sql)
    /\ UNCHANGED <<sql, gen, pos, prev>>

NextToken == IsUnqualified

SpecToken == InitToken /\ [][NextToken]_vars

\* the words the claim lists: COUNT, SUM, AVG, MAX, MIN, CAST, CASE, WHEN,
\* THEN, ELSE, END
ListedPrefixes == FunctionPrefixes \ {Word["DISTINCT"]}

ConstantLiterals == {<<"*">>, Word["NULL"], Word["TRUE"], Word["FALSE"]}

\* C19: is_unqualified(token) is False exactly when the token starts with a
\* listed function or control word, or equals a constant literal, or holds
\* a dot, in any letter case of the token; it is True for every other token.
C19_UnqualifiedExactly ==
    op = "is_unqualified" =>
        out = ~(\/ \E p \in ListedPrefixes : StartsAtI(sql, 1, p)
                \/ Upper(sql) \in ConstantLiterals
                \/ HasDot(sql))

(***************************************************************************)
(* extract_table_aliases on a table followed by the next clause            *)
(***************************************************************************)
ClauseTexts ==
    "Where" :> <<"W", "H", "E", "R", "E", " ", "x">>
    @@ "GroupBy" :> <<"G", "R", "O", "U", "P", " ", "B", "Y", " ", "x">>
    @@ "OrderBy" :> <<"O", "R", "D", "E", "R", " ", "B", "Y", " ", "x">>
    @@ "Limit" :> <<"L", "I", "M", "I", "T", " ", "1">>
    @@ "Having" :> <<"H", "A", "V", "I", "N", "G", " ", "x">>
    @@ "Join" :> <<"J", "O", "I", "N", " ", "c", " ", "O", "N", " ", "x">>
    @@ "LeftJoin" :> 
           <<"L", "E", "F", "T", " ", "J", "O", "I", "N", " ", "c", " ", "O", "N", " ", "x">>
    @@ "RightJoin" :> 
           <<"R", "I", "G", "H", "T", " ", "J", "O", "I", "N", " ", "c", " ", "O", "N", " ", "x">>
    @@ "InnerJoin" :> 
           <<"I", "N", "N", "E", "R", " ", "J", "O", "I", "N", " ", "c", " ", "O", "N", " ", "x">>
    @@ "FullJoin" :> 
           <<"F", "U", "L", "L", " ", "J", "O", "I", "N", " ", "c", " ", "O", "N", " ", "x">>
    @@ "CrossJoin" :> 
           <<"C", "R", "O", "S", "S", " ", "J", "O", "I", "N", " ", "c">>
    @@ "SelectFrom" :> 
           <<"S", "E", "L", "E", "C", "T", " ", "a", " ", "F", "R", "O", "M", " ">>

AliasClauses == {ClauseTexts[k] : k \in DOMAIN ClauseTexts \ {"SelectFrom"}}

AliasGens ==
    [table : {UnqTexts["Orders"], UnqTexts["OrdersO"], UnqTexts["OrdersAsO"]},
     sep : {<<" ">>, <<"\n">>},
     clause : AliasClauses,
     lower : BOOLEAN]

AliasText(g) ==
    LET t == ClauseTexts["SelectFrom"] \o g.table \o g.sep \o g.clause
    IN  IF g.lower THEN Lower(t) ELSE t

InitAliases ==
    /\ gen \in AliasGens
    /\ sql = AliasText(gen)
    /\ pos = 0
    /\ op = "none"
    /\ out = NoValue
    /\ prev = NoValue

NextAliases == ExtractTableAliases

SpecAliases == InitAliases /\ [][NextAliases]_vars

\* the word that starts the clause after the table
ClauseWord(g) == Slice(g.clause, 1, RunEnd(g.clause, 1, WordChars))

\* C20: extract_table_aliases never returns the word that starts the next
\* clause: no element of the result is a denylisted keyword, and a table
\* without alias that a clause keyword follows contributes no alias.
C20_ClauseWordIsNoAlias ==
    op = "extract_table_aliases" =>
        /\ \A a \in out : Upper(a) \notin AliasDenylist
        /\ \A a \in out : Upper(a) # ClauseWord(gen)
        /\ gen.table = UnqTexts["Orders"] => out = {}

(***************************************************************************)
(* RuleLimitWithoutOrderBy.check on texts of several queries, one per line *)
(***************************************************************************)
MaxQueries == 3

QueryChoices ==
    {SelTexts["QPlain"], SelTexts["QLimit"], SelTexts["QOrderLimit"],
     SelTexts["QWindowLimit"], SelTexts["QSubLimit"]}

\* the queries of the text, which ";" and a line break separate
QueryGens == [queries : TextsUpTo(QueryChoices, MaxQueries)]

QueryText(g) == JoinWith(g.queries, <<";", "\n">>)

InitQueries ==
    /\ gen \in QueryGens
    /\ sql = QueryText(gen)
    /\ pos = 0
    /\ op = "none"
    /\ out = NoValue
    /\ prev = NoValue

NextQueries == CheckLimitWithoutOrderBy

SpecQueries == InitQueries /\ [][NextQueries]_vars

\* the queries that use LIMIT with no ORDER BY clause before it: a plain
\* LIMIT, a LIMIT whose only ORDER BY is in OVER(...), a LIMIT in a
\* subquery whose ORDER BY comes after it
LimitWithoutOrder ==
    {SelTexts["QLimit"], SelTexts["QWindowLimit"], SelTexts["QSubLimit"]}

\* C21: RuleLimitWithoutOrderBy.check reports a violation for every query
\* of the text that uses LIMIT without an ORDER BY before it, on its line:
\* an ORDER BY elsewhere in the text does not suppress it, and several such
\* queries get a violation each.
C21_EveryLimitQuery ==
    op = "RuleLimitWithoutOrderBy.check" =>
        \A n \in 1..Len(gen.queries) :
            Cardinality(ViolationsOn(out, n))
                = IF gen.queries[n] \in LimitWithoutOrder THEN 1 ELSE 0

(***************************************************************************)
(* The five rules on a statement that holds a comment: the statement is    *)
(*   <head> <comment>\n<tail>                                              *)
(* and the comment a line comment or a block comment with some content.    *)
(***************************************************************************)
CommentTexts ==
    "CleanHead" :> <<"S", "E", "L", "E", "C", "T", " ", "a">>
    @@ "CleanTail" :> <<"F", "R", "O", "M", " ", "t">>
    @@ "LowerHead" :> <<"s", "e", "l", "e", "c", "t", " ", "a">>
    @@ "LimitTail" :> <<"F", "R", "O", "M", " ", "t", " ", "L", "I", "M",
           "I", "T", " ", "1", "0">>
    @@ "StarHead" :> <<"S", "E", "L", "E", "C", "T", " ", "*", ",", " ", "a",
           "m", "o", "u", "n", "t", ",", " ", "R", "A", "N", "K", "(", ")",
           " ", "O", "V", "E", "R", " ", "(", "P", "A", "R", "T", "I", "T",
           "I", "O", "N", " ", "B", "Y", " ", "a", ")">>
    @@ "AliasTail" :> <<"F", "R", "O", "M", " ", "o", "r", "d", "e", "r",
           "s", " ", "o">>
    @@ "Note" :> <<"c">>
    @@ "NoteStar" :> <<"s", "e", "l", "e", "c", "t", " ", "*", " ", "f", "r",
           "o", "m", " ", "u">>
    @@ "NoteLimit" :> <<"l", "i", "m", "i", "t", " ", "5">>
    @@ "NoteOrder" :> <<"o", "r", "d", "e", "r", " ", "b", "y", " ", "x">>
    @@ "NoteWindow" :> <<"R", "A", "N", "K", "(", ")", " ", "O", "V", "E",
           "R", " ", "(", "a", ")", " ", "F", "R", "O", "M", " ", "u", " ",
           "v">>

CommentContents ==
    {CommentTexts["Note"], CommentTexts["NoteStar"], CommentTexts["NoteLimit"],
     CommentTexts["NoteOrder"], CommentTexts["NoteWindow"]}

\* content is the content of the comment, other a content to compare with
CommentGens ==
    [head : {CommentTexts["CleanHead"], CommentTexts["LowerHead"],
             CommentTexts["StarHead"]},
     tail : {CommentTexts["CleanTail"], CommentTexts["LimitTail"],
             CommentTexts["AliasTail"]},
     block : BOOLEAN,
     content : CommentContents,
     other : CommentContents]

CommentText(g, content) ==
    g.head \o <<" ">>
        \o (IF g.block
            THEN <<"/", "*", " ">> \o content \o <<" ", "*", "/">>
            ELSE <<"-", "-", " ">> \o content)
        \o <<"\n">> \o g.tail

InitComments ==
    /\ gen \in CommentGens
    /\ sql = CommentText(gen, gen.content)
    /\ pos = 0
    /\ op = "none"
    /\ out = NoValue
    /\ prev = NoValue

NextComments ==
    \/ CheckKeywordCase
    \/ CheckLimitWithoutOrderBy
    \/ CheckSelectStar
    \/ CheckUnqualifiedColumns
    \/ CheckWindowOrderBy

SpecComments == InitComments /\ [][NextComments]_vars

\* the statement of the state with the other content in its comment
OtherText == CommentText(gen, gen.other)

\* C22: no rule reports a violation caused by text inside a comment: each of
\* the five rules returns for a statement the violations it returns for the
\* statement with other text in its comment.
C22_CommentsDoNotMatter ==
    /\ op = "RuleKeywordCase.check" => out = RuleKeywordCase_check(OtherText)
    /\ op = "RuleLimitWithoutOrderBy.check" =>
          out = RuleLimitWithoutOrderBy_check(OtherText)
    /\ op = "RuleSelectStar.check" => out = RuleSelectStar_check(OtherText)
    /\ op = "RuleUnqualifiedColumns.check" =>
          out = RuleUnqualifiedColumns_check(OtherText)
    /\ op = "RuleWindowOrderBy.check" =>
          out = RuleWindowOrderBy_check(OtherText)

(***************************************************************************)
(* One SnowflakeLinter with the shipped rules over several calls: lint     *)
(* calls (at most MaxCalls of them), then get_summary, print_violations    *)
(* and generate_report on the violations field.  out is the linter with    *)
(* the file system, pos the number of lint calls made, prev the result of  *)
(* the last reporting call.                                                *)
(***************************************************************************)
MaxCalls == 2

SessionGens == [files : FileLists, rules : {ShippedRules}]

InitSession ==
    /\ gen \in SessionGens
    /\ sql = NoValue
    /\ pos = 0
    /\ op = "none"
    /\ out = [violations |-> <<>>, raised |-> None, returned |-> NoValue,
              stdout |-> <<>>, fs |-> [dirs |-> {}, files |-> {}]]
    /\ prev = NoValue

\* the linter after a lint call: the violations field and the call's result
AfterCall(linter, violations, result) ==
    [linter EXCEPT !.violations = violations, !.raised = result.raised,
                   !.returned = result.value, !.stdout = result.stdout]

\* linter.lint_file(path): returns the violations, leaves self.violations
SessionLintFile ==
    /\ pos < MaxCalls
    /\ \E k \in 0..Len(gen.files) :
          out' = AfterCall(out, out.violations,
                     lint_file(gen.rules, gen.files,
                               IF k = 0 THEN MissingPath
                               ELSE gen.files[k].name))
    /\ pos' = pos + 1
    /\ op' = "lint_file"
    /\ prev' = NoValue
    /\ UNCHANGED <<sql, gen>>

\* self.violations = all_violations, unless the call has raised
StoredViolations(violations, result) ==
    IF result.raised = None THEN result.value ELSE violations

SessionLintDirectory ==
    /\ pos < MaxCalls
    /\ LET result == lint_directory(gen.rules, gen.files)
       IN  out' = AfterCall(out, StoredViolations(out.violations, result),
                            result)
    /\ pos' = pos + 1
    /\ op' = "lint_directory"
    /\ prev' = NoValue
    /\ UNCHANGED <<sql, gen>>

\* linter.get_summary()
GetSummary ==
    /\ pos >= 1
    /\ op' = "get_summary"
    /\ prev' = get_summary(out.violations)
    /\ UNCHANGED <<sql, gen, pos, out>>

\* linter.print_violations()
PrintViolations ==
    /\ pos >= 1
    /\ op' = "print_violations"
    /\ prev' = print_violations(out.violations)
    /\ UNCHANGED <<sql, gen, pos, out>>

\* the file system after generate_report
AfterReport(linter, report) ==
    IF report.raised = None THEN [linter EXCEPT !.fs = report.value]
    ELSE linter

\* linter.generate_report(output_path), the path with a directory part
GenerateReport ==
    /\ pos >= 1
    /\ op' = "generate_report"
    /\ LET report == generate_report(out.violations, out.fs,
                                      ReportPaths["Nested"])
       IN  /\ prev' = report
           /\ out' = AfterReport(out, report)
    /\ UNCHANGED <<sql, gen, pos>>

NextSession ==
    \/ SessionLintFile
    \/ SessionLintDirectory
    \/ GetSummary
    \/ PrintViolations
    \/ GenerateReport

SpecSession == InitSession /\ [][NextSession]_vars

\* the sum of the counts of a function from names to counts
RECURSIVE SumCounts(_)
SumCounts(counts) ==
    IF DOMAIN counts = {} THEN 0
    ELSE LET x == CHOOSE y \in DOMAIN counts : TRUE
         IN  counts[x] + SumCounts([y \in DOMAIN counts \ {x} |-> counts[y]])

\* the violations field holds the list the last lint call returned
HoldsReturned == out.raised = None /\ out.violations = out.returned

\* C23: for the list a lint call returns with the five rules loaded,
\* get_summary, print_violations and generate_report complete without
\* raising, total_violations is the number of violations, and the per-rule
\* counts and the per-severity counts each sum to total_violations.
C23_ReportingCompletes ==
    (op \in {"get_summary", "print_violations", "generate_report"}
        /\ HoldsReturned) =>
        /\ prev.raised = None
        /\ op = "get_summary" =>
              /\ prev.value.total_violations = Len(out.violations)
              /\ SumCounts(prev.value.violations_by_rule)
                    = prev.value.total_violations
              /\ SumCounts(prev.value.violations_by_severity)
                    = prev.value.total_violations

\* C24: after any sequence of lint_file and lint_directory calls the
\* violations field is the list the most recent lint call returned.
C24_FieldIsLastResult ==
    (pos >= 1 /\ out.raised = None) => out.violations = out.returned

=============================================================================
